---------------------------- MODULE Spec2Model ----------------------------
(***************************************************************************)
(* DETECT in SysML v2 (sensmetry/detect): the size classification, the     *)
(* requirement/criteria filter, the natural sort and the exporters of      *)
(* detect.py, and the form session of webapp_main.py.                      *)
(*                                                                         *)
(* Strings that the code inspects character by character (identifiers) are *)
(* sequences of code points; all other names and texts are TLA+ strings.   *)
(***************************************************************************)
EXTENDS Integers, Sequences, FiniteSets, TLC

VARIABLES
    mode,           \* which program runs: "cli" (detect.py), "web" (webapp_main.py /tool),
                    \* or "fn" (a function applied to drawn arguments)
    arg,            \* "fn": the arguments the function is applied to
    ret,            \* "fn": the function called last and what it returned
    model,          \* the loaded syside.Model: its elements and their value expressions
    \* detect.py __main__
    pc,                     \* how far the run has come
    system_size_number,     \* line 596
    system_size,            \* line 600
    requirements,           \* line 610
    criteria,               \* line 610
    files,                  \* the files of the Output directory
    stdout,                 \* the lines printed
    exc,                    \* the exception that ended the run
    \* webapp_main.py main_page
    data,                   \* the selected label of every field
    state,                  \* calculated_system_size, calculated_system_size_number
    result_card,            \* the content of result_card_container
    second_button_visible,  \* second_button_container
    tableviews,             \* tableviews_container: its visibility and content
    notification,           \* the ui.notify of the last handler
    last                    \* the handler that ran last and the functions it
                            \* called (kept for the claims)

fnVars == <<arg, ret>>
cliVars == <<pc, system_size_number, system_size, requirements, criteria, files, stdout, exc>>
webVars == <<data, state, result_card, second_button_visible, tableviews, notification>>
progVars == <<cliVars, webVars, last>>
vars == <<mode, arg, ret, model, progVars>>

None == "None"

\* None where the value would be an int
NoNumber == -1

NoFile == [exists |-> FALSE, rows |-> <<>>]

\* the program variables of a run that applies a single function
ProgramIdle ==
    /\ pc = None
    /\ system_size_number = NoNumber
    /\ system_size = None
    /\ requirements = <<>>
    /\ criteria = <<>>
    /\ files = [f \in {"requirements.csv", "criteria.csv"} |-> NoFile]
    /\ stdout = <<>>
    /\ exc = None
    /\ data = None
    /\ state = None
    /\ result_card = None
    /\ second_button_visible = FALSE
    /\ tableviews = None
    /\ notification = None
    /\ last = None

---------------------------------------------------------------------------
(* Bounds of the model                                                     *)

MaxListLen == 2

---------------------------------------------------------------------------
(* Characters                                                              *)

Dot == <<46>>
Zero == <<48>>
One == <<49>>
Two == <<50>>
LetterC == <<67>>
LetterR == <<82>>
SuperTwo == <<178>>

\* re's \d on str patterns: a decimal digit (here the ASCII ones)
IsReDigit(c) == c \in 48..57

\* str.isdigit() of one character: decimal digits and the digit-valued
\* characters that are not decimal, such as SUPERSCRIPT TWO (U+00B2)
IsStrDigitChar(c) == c \in 48..57 \/ c = 178

---------------------------------------------------------------------------
(* natural_sort_key and sorted(..., key=natural_sort_key)                  *)

\* A call either returns a value or raises an exception
Returned(v) == [exc |-> None, val |-> v]
Raised(e) == [exc |-> e, val |-> None]

RECURSIVE NonDigitPrefixLen(_)
\* length of the longest prefix of s that holds no \d character
NonDigitPrefixLen(s) ==
    IF s = <<>> \/ IsReDigit(Head(s)) THEN 0 ELSE 1 + NonDigitPrefixLen(Tail(s))

RECURSIVE DigitPrefixLen(_)
\* length of the longest prefix of s made of \d characters (a match of \d+)
DigitPrefixLen(s) ==
    IF s = <<>> \/ ~IsReDigit(Head(s)) THEN 0 ELSE 1 + DigitPrefixLen(Tail(s))

RECURSIVE ReSplitDigits(_)
\* re.split(r"(\d+)", s): the texts between the matches, with the matches
\* themselves (the capturing group) in between
ReSplitDigits(s) ==
    LET n == NonDigitPrefixLen(s)
        rest == SubSeq(s, n + 1, Len(s))
        d == DigitPrefixLen(rest)
    IN  IF rest = <<>>
        THEN <<SubSeq(s, 1, n)>>
        ELSE <<SubSeq(s, 1, n), SubSeq(rest, 1, d)>>
                 \o ReSplitDigits(SubSeq(rest, d + 1, Len(rest)))

\* str.isdigit(): non-empty and every character a digit character
StrIsDigit(part) ==
    part # <<>> /\ \A i \in 1..Len(part) : IsStrDigitChar(part[i])

RECURSIVE DecimalValue(_)
DecimalValue(part) ==
    IF part = <<>> THEN 0
    ELSE 10 * DecimalValue(SubSeq(part, 1, Len(part) - 1)) + (part[Len(part)] - 48)

\* int(part) for a part that passed isdigit(): a ValueError unless every
\* character is a decimal digit
IntOf(part) ==
    IF \A i \in 1..Len(part) : IsReDigit(part[i])
    THEN Returned(DecimalValue(part))
    ELSE Raised("ValueError")

IntSeg(n) == [isint |-> TRUE, n |-> n, s |-> <<>>]
StrSeg(s) == [isint |-> FALSE, n |-> 0, s |-> s]

RECURSIVE KeyOfParts(_)
\* the loop of natural_sort_key over the parts
KeyOfParts(parts) ==
    IF parts = <<>> THEN Returned(<<>>)
    ELSE LET part == Head(parts)
             rest == KeyOfParts(Tail(parts))
         IN  IF part = <<>> THEN rest
             ELSE IF StrIsDigit(part)
             THEN LET v == IntOf(part)
                  IN  IF v.exc # None THEN v
                      ELSE IF rest.exc # None THEN rest
                      ELSE Returned(<<IntSeg(v.val)>> \o rest.val)
             ELSE IF rest.exc # None THEN rest
             ELSE Returned(<<StrSeg(part)>> \o rest.val)

\* the key of a plain string sort: the identifier as one non-digit segment
natural_sort_key_plain(id_str) == Returned(<<StrSeg(id_str)>>)

natural_sort_key(id_str) == KeyOfParts(ReSplitDigits(id_str))

RECURSIVE StrLess(_, _)
\* str < str: by code point, a proper prefix first
StrLess(a, b) ==
    IF b = <<>> THEN FALSE
    ELSE IF a = <<>> THEN TRUE
    ELSE IF Head(a) # Head(b) THEN Head(a) < Head(b)
    ELSE StrLess(Tail(a), Tail(b))

\* x < y of two tuple items: "TypeError" for an int against a str
SegLess(x, y) ==
    IF x.isint # y.isint THEN Raised("TypeError")
    ELSE IF x.isint THEN Returned(x.n < y.n)
    ELSE Returned(StrLess(x.s, y.s))

RECURSIVE TupleLess(_, _)
\* a < b of two tuples: the first items that are not equal decide, and
\* without such items the shorter tuple is the smaller
TupleLess(a, b) ==
    IF a = <<>> \/ b = <<>> THEN Returned(Len(a) < Len(b))
    ELSE IF Head(a) # Head(b) THEN SegLess(Head(a), Head(b))
    ELSE TupleLess(Tail(a), Tail(b))

RECURSIVE KeysOf(_)
\* list.sort computes the key of every item, in list order, before it
\* compares any two
KeysOf(items) ==
    IF items = <<>> THEN Returned(<<>>)
    ELSE LET k == natural_sort_key(Head(items).id)
         IN  IF k.exc # None THEN k
             ELSE LET rest == KeysOf(Tail(items))
                  IN  IF rest.exc # None THEN rest
                      ELSE Returned(<<[key |-> k.val, item |-> Head(items)]>> \o rest.val)

RECURSIVE InsertSorted(_, _, _)
\* the place of pivot in the sorted run run[1..i]: after the last item it is
\* not smaller than (the sort is stable)
InsertSorted(run, pivot, i) ==
    IF i = 0 THEN Returned(<<pivot>> \o run)
    ELSE LET lt == TupleLess(pivot.key, run[i].key)
         IN  IF lt.exc # None THEN lt
             ELSE IF lt.val THEN InsertSorted(run, pivot, i - 1)
             ELSE Returned(SubSeq(run, 1, i) \o <<pivot>> \o SubSeq(run, i + 1, Len(run)))

RECURSIVE SortKeyed(_, _)
SortKeyed(run, todo) ==
    IF todo = <<>> THEN Returned(run)
    ELSE LET r == InsertSorted(run, Head(todo), Len(run))
         IN  IF r.exc # None THEN r ELSE SortKeyed(r.val, Tail(todo))

\* sorted(items, key=lambda x: natural_sort_key(x.id))
SortedByNaturalKey(items) ==
    LET keyed == KeysOf(items)
    IN  IF keyed.exc # None THEN keyed
        ELSE LET s == SortKeyed(<<>>, keyed.val)
             IN  IF s.exc # None THEN s
                 ELSE Returned([i \in 1..Len(s.val) |-> s.val[i].item])

---------------------------------------------------------------------------
(* Records and their presentations                                         *)

\* class Requirement / class Criteria
Requirement(id, description, value) ==
    [id |-> id, description |-> description, value |-> value]
Criteria(id, criteria_str, context, value) ==
    [id |-> id, criteria |-> criteria_str, context |-> context, value |-> value]

RequirementsHeader == <<"id", "value", "description">>
CriteriaHeader == <<"id", "value", "criteria", "context">>

RequirementRow(req) == <<req.id, req.value, req.description>>
CriteriaRow(crit) == <<crit.id, crit.value, crit.criteria, crit.context>>

\* save_requirements_to_csv: the header row is written before the list is
\* sorted, so a sort that raises leaves a file with the header alone
save_requirements_to_csv(reqs) ==
    LET sorted_requirements == SortedByNaturalKey(reqs)
    IN  IF sorted_requirements.exc # None
        THEN [exc |-> sorted_requirements.exc, file |-> <<RequirementsHeader>>]
        ELSE [exc |-> None,
              file |-> <<RequirementsHeader>> \o
                       [i \in 1..Len(reqs) |-> RequirementRow(sorted_requirements.val[i])]]

save_criteria_to_csv(crits) ==
    LET sorted_criteria == SortedByNaturalKey(crits)
    IN  IF sorted_criteria.exc # None
        THEN [exc |-> sorted_criteria.exc, file |-> <<CriteriaHeader>>]
        ELSE [exc |-> None,
              file |-> <<CriteriaHeader>> \o
                       [i \in 1..Len(crits) |-> CriteriaRow(sorted_criteria.val[i])]]

\* generate_csv_content_requirements: the rows are written to a buffer that
\* is returned only when all of them were written
generate_csv_content_requirements(reqs) ==
    LET sorted_requirements == SortedByNaturalKey(reqs)
    IN  IF sorted_requirements.exc # None THEN sorted_requirements
        ELSE Returned(<<RequirementsHeader>> \o
                      [i \in 1..Len(reqs) |-> RequirementRow(sorted_requirements.val[i])])

generate_csv_content_criteria(crits) ==
    LET sorted_criteria == SortedByNaturalKey(crits)
    IN  IF sorted_criteria.exc # None THEN sorted_criteria
        ELSE Returned(<<CriteriaHeader>> \o
                      [i \in 1..Len(crits) |-> CriteriaRow(sorted_criteria.val[i])])

\* create_requirements_tableview: the columns (by field name), then a row per
\* sorted record
create_requirements_tableview(reqs) ==
    LET sorted_requirements == SortedByNaturalKey(reqs)
    IN  IF sorted_requirements.exc # None THEN sorted_requirements
        ELSE Returned(<<RequirementsHeader>> \o
                      [i \in 1..Len(reqs) |-> RequirementRow(sorted_requirements.val[i])])

create_criteria_tableview(crits) ==
    LET sorted_criteria == SortedByNaturalKey(crits)
    IN  IF sorted_criteria.exc # None THEN sorted_criteria
        ELSE Returned(<<CriteriaHeader>> \o
                      [i \in 1..Len(crits) |-> CriteriaRow(sorted_criteria.val[i])])

---------------------------------------------------------------------------
(* Identifiers and record lists the functions are applied to               *)

IdNumbers == {One, Two, One \o Zero}

\* identifiers of the documented format: a letter, then dot-separated numbers
FormatIds ==
    {LetterR \o n : n \in IdNumbers}
        \cup {LetterR \o n \o Dot \o m : n \in IdNumbers, m \in IdNumbers}
        \cup {LetterC \o One, LetterC \o Two \o Dot \o One, LetterR \o Zero \o One}

\* other short names a model can give a requirement usage
OtherIds ==
    {<<>>, One, One \o LetterR, LetterR, LetterR \o Dot \o One,
     SuperTwo, LetterR \o SuperTwo, LetterR \o One \o SuperTwo}

IdPool == FormatIds \cup OtherIds

RECURSIVE SeqsUpTo(_, _)
\* the sequences over S of length at most n
SeqsUpTo(S, n) ==
    IF n = 0 THEN {<<>>}
    ELSE LET shorter == SeqsUpTo(S, n - 1)
         IN  shorter \cup {Append(q, x) : q \in shorter, x \in S}

\* the list of the spec's example: ["R10", "R2", "R1.1", "R1"]
ExampleIds ==
    <<LetterR \o One \o Zero, LetterR \o Two,
      LetterR \o One \o Dot \o One, LetterR \o One>>

IdLists == SeqsUpTo(IdPool, MaxListLen) \cup {ExampleIds}

\* texts of documentation comments: "a", then a text with a comma, a double
\* quote, a line feed and a letter outside ASCII, a text with a carriage
\* return, "d", "e"
Texts == <<<<97>>, <<98, 44, 34, 10, 233>>, <<99, 13, 99>>, <<100>>, <<101>>>>

\* the i-th record of a list carries the i-th text and weight i, which tells
\* apart two records of one identifier
RequirementsOf(ids) ==
    [i \in 1..Len(ids) |-> Requirement(ids[i], Texts[i], i)]
CriteriaOf(ids) ==
    [i \in 1..Len(ids) |-> Criteria(ids[i], Texts[i], Texts[i + 1], i)]

---------------------------------------------------------------------------
(* The sort and the presentations applied to drawn record lists            *)

NotCalled == [fn |-> None, out |-> None]

InitSort ==
    /\ mode = "fn"
    /\ model = None
    /\ ProgramIdle
    /\ \E ids \in IdLists :
           arg = [ids |-> ids,
                  requirements |-> RequirementsOf(ids),
                  criteria |-> CriteriaOf(ids)]
    /\ ret = NotCalled

CallNaturalSortKey ==
    /\ ret' = [fn |-> "natural_sort_key",
               out |-> [i \in 1..Len(arg.ids) |-> natural_sort_key(arg.ids[i])]]
    /\ UNCHANGED <<mode, arg, model, progVars>>

CallSaveRequirements ==
    /\ ret' = [fn |-> "save_requirements_to_csv",
               out |-> save_requirements_to_csv(arg.requirements)]
    /\ UNCHANGED <<mode, arg, model, progVars>>

CallSaveCriteria ==
    /\ ret' = [fn |-> "save_criteria_to_csv",
               out |-> save_criteria_to_csv(arg.criteria)]
    /\ UNCHANGED <<mode, arg, model, progVars>>

CallGenerateRequirements ==
    /\ ret' = [fn |-> "generate_csv_content_requirements",
               out |-> generate_csv_content_requirements(arg.requirements)]
    /\ UNCHANGED <<mode, arg, model, progVars>>

CallGenerateCriteria ==
    /\ ret' = [fn |-> "generate_csv_content_criteria",
               out |-> generate_csv_content_criteria(arg.criteria)]
    /\ UNCHANGED <<mode, arg, model, progVars>>

CallRequirementsTableview ==
    /\ ret' = [fn |-> "create_requirements_tableview",
               out |-> create_requirements_tableview(arg.requirements)]
    /\ UNCHANGED <<mode, arg, model, progVars>>

CallCriteriaTableview ==
    /\ ret' = [fn |-> "create_criteria_tableview",
               out |-> create_criteria_tableview(arg.criteria)]
    /\ UNCHANGED <<mode, arg, model, progVars>>

NextSort ==
    \/ CallNaturalSortKey
    \/ CallSaveRequirements
    \/ CallSaveCriteria
    \/ CallGenerateRequirements
    \/ CallGenerateCriteria
    \/ CallRequirementsTableview
    \/ CallCriteriaTableview

SpecSort == InitSort /\ [][NextSort]_vars

---------------------------------------------------------------------------
(* Claims about the natural sort and the presentations (SpecSort)          *)

\* the rows a presentation has produced (the header row first): the file
\* of the two save functions, the returned content or table of the others
Produced ==
    IF ret.fn \in {"save_requirements_to_csv", "save_criteria_to_csv"}
    THEN ret.out.file
    ELSE IF ret.out.exc = None THEN ret.out.val ELSE <<>>

PresentationFns ==
    {"save_requirements_to_csv", "save_criteria_to_csv",
     "generate_csv_content_requirements", "generate_csv_content_criteria",
     "create_requirements_tableview", "create_criteria_tableview"}

RequirementFns ==
    {"save_requirements_to_csv", "generate_csv_content_requirements",
     "create_requirements_tableview"}

\* the identifiers of the produced rows, without the header row
ProducedIds == [i \in 1..(Len(Produced) - 1) |-> Produced[i + 1][1]]

\* An identifier of the documented format read as its letter and the list of
\* its numbers: the numbers are the texts between the dots
DotPlaces(id) == {i \in 1..Len(id) : id[i] = 46}
NumberStarts(id) == {2} \cup {i + 1 : i \in DotPlaces(id)}
NumberEnd(id, start) ==
    IF \E d \in DotPlaces(id) : d > start
    THEN (CHOOSE d \in DotPlaces(id) :
              d > start /\ \A e \in DotPlaces(id) : e > start => d <= e) - 1
    ELSE Len(id)
NthStart(id, k) ==
    CHOOSE x \in NumberStarts(id) :
        Cardinality({y \in NumberStarts(id) : y < x}) = k - 1
NumbersOf(id) ==
    [k \in 1..Cardinality(NumberStarts(id)) |->
        DecimalValue(SubSeq(id, NthStart(id, k), NumberEnd(id, NthStart(id, k))))]

\* component-wise numeric order, an identifier before its extensions
NumbersLess(a, b) ==
    \/ \E k \in 1..Len(a) :
           /\ k <= Len(b)
           /\ \A j \in 1..(k - 1) : a[j] = b[j]
           /\ a[k] < b[k]
    \/ /\ Len(a) < Len(b)
       /\ \A j \in 1..Len(a) : a[j] = b[j]

FormatLess(x, y) ==
    \/ x[1] < y[1]
    \/ x[1] = y[1] /\ NumbersLess(NumbersOf(x), NumbersOf(y))

\* C8: sorting by natural_sort_key orders the digit runs numerically and puts
\* an identifier before its extensions: ["R10","R2","R1.1","R1"] sorts to
\* ["R1","R1.1","R2","R10"], and every list of identifiers made of a letter
\* and dot-separated numbers comes out in component-wise numeric order.
C8_NaturalOrder ==
    (ret.fn \in PresentationFns /\ \A i \in 1..Len(arg.ids) : arg.ids[i] \in FormatIds)
        => /\ ret.out.exc = None
           /\ Len(ProducedIds) = Len(arg.ids)
           /\ \A i, j \in 1..Len(ProducedIds) :
                  i < j => ~FormatLess(ProducedIds[j], ProducedIds[i])
           /\ \A i, j \in 1..Len(ProducedIds) :
                  FormatLess(ProducedIds[i], ProducedIds[j]) => i < j
           /\ arg.ids = ExampleIds =>
                  ProducedIds = <<LetterR \o One, LetterR \o One \o Dot \o One,
                                  LetterR \o Two, LetterR \o One \o Zero>>

C8_Witness ==
    /\ ret.fn = "save_requirements_to_csv"
    /\ arg.ids = ExampleIds
    /\ ProducedIds[1] = LetterR \o One
    /\ ProducedIds[4] = LetterR \o One \o Zero

\* The maximal runs of decimal digits and of other characters of an
\* identifier, by the places where the kind of character changes
RunStarts(id) ==
    {i \in 1..Len(id) : i = 1 \/ IsReDigit(id[i]) # IsReDigit(id[i - 1])}
NthRunStart(id, k) ==
    CHOOSE x \in RunStarts(id) : Cardinality({y \in RunStarts(id) : y < x}) = k - 1
RunEnd(id, k) ==
    IF k = Cardinality(RunStarts(id)) THEN Len(id) ELSE NthRunStart(id, k + 1) - 1
RunsOf(id) ==
    [k \in 1..Cardinality(RunStarts(id)) |->
        LET run == SubSeq(id, NthRunStart(id, k), RunEnd(id, k))
        IN  IF IsReDigit(run[1]) THEN IntSeg(DecimalValue(run)) ELSE StrSeg(run)]

\* C9: natural_sort_key(id) is the sequence of the maximal digit runs (as
\* integers) and the maximal non-digit runs (as strings) of id, in their
\* order: no segment is empty and the two kinds alternate.
C9_KeyIsRunSequence ==
    ret.fn = "natural_sort_key" =>
        \A i \in 1..Len(arg.ids) :
            LET k == ret.out[i]
            IN  /\ k.exc = None
                /\ k.val = RunsOf(arg.ids[i])
                /\ \A j \in 1..Len(k.val) : k.val[j].isint \/ k.val[j].s # <<>>
                /\ \A j \in 1..(Len(k.val) - 1) : k.val[j].isint # k.val[j + 1].isint

\* the rows of the input list, as the presentation renders them
InputRows ==
    IF ret.fn \in RequirementFns
    THEN [i \in 1..Len(arg.requirements) |-> RequirementRow(arg.requirements[i])]
    ELSE [i \in 1..Len(arg.criteria) |-> CriteriaRow(arg.criteria[i])]

HeaderOf == IF ret.fn \in RequirementFns THEN RequirementsHeader ELSE CriteriaHeader

\* q is p with its items in another order
IsPermutation(p, q) ==
    /\ Len(p) = Len(q)
    /\ \A x \in {p[i] : i \in 1..Len(p)} \cup {q[i] : i \in 1..Len(q)} :
           Cardinality({i \in 1..Len(p) : p[i] = x})
               = Cardinality({i \in 1..Len(q) : q[i] = x})

\* the produced rows never step down in the order of the keys
RowsInKeyOrder ==
    \A i, j \in 1..Len(ProducedIds) :
        i < j =>
            LET lt == TupleLess(natural_sort_key(ProducedIds[j]).val,
                                natural_sort_key(ProducedIds[i]).val)
            IN  lt.exc = None /\ ~lt.val

\* C10: every presentation emits the fixed header row and then exactly one
\* row per input record, in non-decreasing natural-sort order of the
\* identifier: the rows are a permutation of the input list.
C10_OneRowPerRecord ==
    ret.fn \in PresentationFns =>
        /\ Len(Produced) = Len(InputRows) + 1
        /\ Produced[1] = HeaderOf
        /\ IsPermutation(InputRows, SubSeq(Produced, 2, Len(Produced)))
        /\ RowsInKeyOrder

\* what does hold: a presentation whose sort returns emits the header and
\* one row per record in key order (C10 for the lists the sort accepts)
PresentationWhenSorted ==
    (ret.fn \in PresentationFns /\ ret.out.exc = None) =>
        /\ Len(Produced) = Len(InputRows) + 1
        /\ Produced[1] = HeaderOf
        /\ IsPermutation(InputRows, SubSeq(Produced, 2, Len(Produced)))
        /\ RowsInKeyOrder

---------------------------------------------------------------------------
(* The loaded model                                                        *)
(*                                                                         *)
(* model.inputs       the features of the `inputs` item of the ecosystem   *)
(*                    part usage, in model order: [name, expr], expr the   *)
(*                    label of the selected enumeration value              *)
(* model.system_size_number   has, value: the attribute of that name       *)
(* model.system_size  the expression of the ecosystem's system_size        *)
(*                    attribute: the threshold rules as loaded             *)
(* model.first_system_size    the expression of the first AttributeUsage   *)
(*                    named system_size in the model, which is the         *)
(*                    ecosystem's own attribute when model.aliased         *)
(* model.rules        the threshold rules, in order                        *)
(* model.records      the requirement usages, in model order               *)

Categories == {"Small", "Medium", "Large"}

NumFields == 2
MaxWeight == 2

FieldNames == <<"project_status", "team_size", "tool_count", "site_count">>
OptionLabels == <<"Low", "Mid", "High", "Top">>

\* the enumerated values of an input, in the order of the definition: one
\* option per weight, and the placeholder TBD of value 0
OptionsOf(field) ==
    [w \in 1..MaxWeight |-> [label |-> OptionLabels[w], value |-> w]]
        \o <<[label |-> "TBD", value |-> 0]>>

Fields == SubSeq(FieldNames, 1, NumFields)

RulesExpr == [kind |-> "rules", cat |-> None]
RefExpr(c) == [kind |-> "ref", cat |-> c]

\* the rule a threshold predicate stands for: number <= le, or else
LeRule(n, c) == [else |-> FALSE, le |-> n, cat |-> c]
ElseRule(c) == [else |-> TRUE, le |-> 0, cat |-> c]
RuleHolds(rule, number) == rule.else \/ number <= rule.le

RECURSIVE EvalRules(_, _)
\* the value of the threshold expression: the category of the first rule the
\* number satisfies, and no value when it satisfies none
EvalRules(rules, number) ==
    IF rules = <<>> THEN None
    ELSE IF RuleHolds(Head(rules), number) THEN Head(rules).cat
    ELSE EvalRules(Tail(rules), number)

\* syside.Compiler().evaluate of a system_size value expression
EvalSizeExpr(m, expr) ==
    IF expr.kind = "rules" THEN EvalRules(m.rules, m.system_size_number.value)
    ELSE expr.cat

\* the expression of the first AttributeUsage named system_size
FirstSystemSizeExpr(m) ==
    IF m.aliased THEN m.system_size ELSE m.first_system_size

---------------------------------------------------------------------------
(* detect.py: the size calculation                                         *)

RECURSIVE SumFrom(_, _)
\* sum(): the values added one by one, in order, to the start value 0
SumFrom(acc, values) ==
    IF values = <<>> THEN acc ELSE SumFrom(acc + Head(values), Tail(values))

\* data.values() of a dict kept as its items in insertion order
DictValues(d) == [i \in 1..Len(d) |-> d[i].value]

\* a sum over the set of the values: equal weights are counted once
system_size_calculation_of_set(d) ==
    LET values == {d[i].value : i \in 1..Len(d)}
    IN  Cardinality({<<v, u>> \in values \X (1..MaxWeight) : u <= v})

system_size_calculation(d) == SumFrom(0, DictValues(d))

\* inputs_data[name] = value: a new key is added last, a known key keeps its place
DictSet(d, name, value) ==
    IF \E i \in 1..Len(d) : d[i].name = name
    THEN [i \in 1..Len(d) |->
             IF d[i].name = name THEN [name |-> name, value |-> value] ELSE d[i]]
    ELSE Append(d, [name |-> name, value |-> value])

\* evaluate_enum_value: the value of the selected enumeration value, 0 when it
\* has no `value` feature
evaluate_enum_value(field, label) ==
    LET opts == OptionsOf(field)
    IN  IF \E i \in 1..Len(opts) : opts[i].label = label
        THEN Returned((CHOOSE o \in {opts[i] : i \in 1..Len(opts)} : o.label = label).value)
        ELSE Returned(0)

RECURSIVE InputsLoop(_, _)
\* the loop of get_system_size_number over the features of `inputs`: the
\* first feature that cannot be read, or is still TBD, raises
InputsLoop(features, inputs_data) ==
    IF features = <<>> THEN Returned(inputs_data)
    ELSE LET feature == Head(features)
         IN  IF feature.expr \in {"no_expression", "fatal", "none", "not_enum"}
             THEN [exc |-> "ValueError", val |-> None, field |-> feature.name, why |-> feature.expr]
             ELSE LET number_value == evaluate_enum_value(feature.name, feature.expr)
                  IN  IF number_value.exc # None
                      THEN [exc |-> number_value.exc, val |-> None, field |-> feature.name, why |-> "value"]
                      ELSE IF number_value.val = 0
                      THEN [exc |-> "ValueError", val |-> None, field |-> feature.name, why |-> "TBD"]
                      ELSE IF feature.name = None
                      THEN [exc |-> "ValueError", val |-> None, field |-> feature.name, why |-> "no_name"]
                      ELSE InputsLoop(Tail(features),
                                      DictSet(inputs_data, feature.name, number_value.val))

\* get_system_size_number: the sum of the values of the inputs; val is the
\* sum, and a raised error names one field (`field`) and its cause (`why`)
get_system_size_number(m) ==
    LET inputs_data == InputsLoop(m.inputs, <<>>)
    IN  IF inputs_data.exc # None THEN inputs_data
        ELSE Returned(system_size_calculation(inputs_data.val))

\* calculate_system_size: writes the number into system_size_number, then
\* evaluates the expression of the ecosystem's system_size attribute. The
\* messages of lines 377-386 are f-strings over the name system_size, which
\* the function does not define: raising them raises NameError instead.
calculate_system_size(m, number) ==
    IF ~m.system_size_number.has
    THEN [exc |-> "ValueError", val |-> None, model |-> m]
    ELSE LET m2 == [m EXCEPT !.system_size_number.value = number]
         IN  IF m2.system_size.kind = "missing"
             THEN [exc |-> "ValueError", val |-> None, model |-> m2]
             ELSE IF m2.system_size.kind = "no_expression"
             THEN [exc |-> "NameError", val |-> None, model |-> m2]
             ELSE LET evaluation == EvalSizeExpr(m2, m2.system_size)
                  IN  IF evaluation \notin Categories
                      THEN [exc |-> "NameError", val |-> None, model |-> m2]
                      ELSE [exc |-> None, val |-> evaluation, model |-> m2]

\* a write-back that leaves the model as it is
write_system_size_skipped(size, m) == [exc |-> None, model |-> m]

\* a write-back into every attribute named system_size
write_system_size_everywhere(size, m) ==
    [exc |-> None,
     model |-> [m EXCEPT !.system_size = RefExpr(size),
                         !.first_system_size = RefExpr(size)]]

\* a write-back into the other attribute named system_size, not the first
write_system_size_into_other(size, m) ==
    IF m.aliased
    THEN [exc |-> None, model |-> [m EXCEPT !.first_system_size = RefExpr(size)]]
    ELSE [exc |-> None, model |-> [m EXCEPT !.system_size = RefExpr(size)]]

\* write_system_size: the first AttributeUsage named system_size gets a
\* reference to the enumeration value as its value expression
write_system_size(size, m) ==
    LET target == FirstSystemSizeExpr(m)
    IN  IF target.kind = "missing" THEN [exc |-> "ValueError", model |-> m]
        ELSE IF target.kind = "no_expression" THEN [exc |-> "AttributeError", model |-> m]
        ELSE IF m.aliased
        THEN [exc |-> None, model |-> [m EXCEPT !.system_size = RefExpr(size)]]
        ELSE [exc |-> None, model |-> [m EXCEPT !.first_system_size = RefExpr(size)]]

---------------------------------------------------------------------------
(* detect.py: the filter                                                   *)
(*                                                                         *)
(* A requirement usage of the model:                                       *)
(*   name         its declared name                                        *)
(*   short_name   its identifier, or NoText                                *)
(*   definitions  the names of its definitions                             *)
(*   constraints  its assumed constraints: [kind, holds], holds the        *)
(*                categories for which a boolean constraint is true        *)
(*   docs         the bodies of its documentation comments by name, NoText *)
(*                for a comment it does not have                           *)
(*   weight       [kind, value]: its weight attribute and what its         *)
(*                expression evaluates to                                  *)

\* None where the value would be a str
NoText == <<-1>>

IsSpace(c) == c \in {9, 10, 13, 32}

RECURSIVE LStrip(_)
LStrip(t) == IF t # <<>> /\ IsSpace(Head(t)) THEN LStrip(Tail(t)) ELSE t

RECURSIVE RStrip(_)
RStrip(t) ==
    IF t # <<>> /\ IsSpace(t[Len(t)]) THEN RStrip(SubSeq(t, 1, Len(t) - 1)) ELSE t

\* str.strip()
Strip(t) == RStrip(LStrip(t))

\* get_named_documentation_comment: the stripped body of the comment of that
\* name, None without such a comment
get_named_documentation_comment(namespace, comment_name) ==
    IF namespace.docs[comment_name] = NoText THEN NoText
    ELSE Strip(namespace.docs[comment_name])

Fail(why) == [exc |-> "ValueError", val |-> None, why |-> why]

\* an evaluation that does not count the constraints: none is no
\* applicability, of several the first decides
evaluate_requirement_unchecked(m, requirement_sysml, size_arg) ==
    LET constraints == requirement_sysml.constraints
    IN  IF constraints = <<>> THEN Returned(FALSE)
        ELSE LET constraint == constraints[1]
                 size == EvalSizeExpr(m, FirstSystemSizeExpr(m))
             IN  IF constraint.kind # "bool" \/ size = None THEN Fail("constraint")
                 ELSE Returned(size \in constraint.holds)

\* evaluate_requirement: the value of the single assumed constraint. The
\* compiler evaluates the constraint in the model, where it reads the
\* system_size attribute that write_system_size has written: the argument
\* system_size is not used.
evaluate_requirement(m, requirement_sysml, size_arg) ==
    LET constraints == requirement_sysml.constraints
    IN  IF Len(constraints) # 1 THEN Fail("constraints")
        ELSE LET constraint == constraints[1]
                 size == EvalSizeExpr(m, FirstSystemSizeExpr(m))
             IN  IF constraint.kind = "not_usage" THEN Fail("constraint_usage")
                 ELSE IF constraint.kind = "no_expression" THEN Fail("constraint_expression")
                 ELSE IF constraint.kind = "fatal" THEN Fail("constraint_fatal")
                 ELSE IF constraint.kind = "none" \/ size = None THEN Fail("constraint_none")
                 ELSE IF constraint.kind = "not_bool" THEN Fail("constraint_not_bool")
                 ELSE Returned(size \in constraint.holds)

\* the weight of a record: lines 433-459 and 487-513
WeightOf(requirement_sysml) ==
    LET weight == requirement_sysml.weight
    IN  IF weight.kind = "missing" THEN Fail("weight_missing")
        ELSE IF weight.kind = "not_attribute" THEN Fail("weight_not_attribute")
        ELSE IF weight.kind = "no_expression" THEN Fail("weight_expression")
        ELSE IF weight.kind = "fatal" THEN Fail("weight_fatal")
        ELSE IF weight.kind = "none" THEN Fail("weight_none")
        ELSE IF weight.kind = "not_number" THEN Fail("weight_not_number")
        ELSE Returned(weight.value)

\* the body of the branch of a DE_Ecosystem_req_Def record that applies
RequirementOf(requirement_sysml) ==
    LET id == requirement_sysml.short_name
        description == get_named_documentation_comment(requirement_sysml, "Description")
        weight == WeightOf(requirement_sysml)
    IN  IF id = NoText THEN Fail("short_name")
        ELSE IF description = NoText THEN Fail("description")
        ELSE IF weight.exc # None THEN weight
        ELSE Returned(Requirement(id, description, weight.val))

\* the body of the branch of a Criteria_Def record that applies
CriteriaOfRecord(requirement_sysml) ==
    LET id == requirement_sysml.short_name
        criteria_str == get_named_documentation_comment(requirement_sysml, "Criteria")
        context == get_named_documentation_comment(requirement_sysml, "Context")
        weight == WeightOf(requirement_sysml)
    IN  IF id = NoText THEN Fail("short_name")
        ELSE IF criteria_str = NoText THEN Fail("criteria")
        ELSE IF context = NoText THEN Fail("context")
        ELSE IF weight.exc # None THEN weight
        ELSE Returned(Criteria(id, criteria_str, context, weight.val))

RECURSIVE FilterLoop_no_elif(_, _, _, _, _)
\* a loop whose second test is an if of its own, not the elif of line 462: a
\* usage with both definitions is collected as a requirement and as criteria
FilterLoop_no_elif(m, size, todo, reqs, crits) ==
    IF todo = <<>>
    THEN Returned([requirements |-> reqs, criteria |-> crits])
    ELSE LET requirement_sysml == Head(todo)
             as_requirement == "DE_Ecosystem_req_Def" \in requirement_sysml.definitions
             as_criteria == "Criteria_Def" \in requirement_sysml.definitions
             applies == evaluate_requirement(m, requirement_sysml, size)
             req == RequirementOf(requirement_sysml)
             crit == CriteriaOfRecord(requirement_sysml)
         IN  IF ~as_requirement /\ ~as_criteria
             THEN FilterLoop_no_elif(m, size, Tail(todo), reqs, crits)
             ELSE IF applies.exc # None THEN applies
             ELSE IF ~applies.val
             THEN FilterLoop_no_elif(m, size, Tail(todo), reqs, crits)
             ELSE IF as_requirement /\ req.exc # None THEN req
             ELSE IF as_criteria /\ crit.exc # None THEN crit
             ELSE FilterLoop_no_elif(
                      m, size, Tail(todo),
                      IF as_requirement THEN Append(reqs, req.val) ELSE reqs,
                      IF as_criteria THEN Append(crits, crit.val) ELSE crits)

RECURSIVE FilterLoop(_, _, _, _, _)
\* the loop of evaluate_requirements_and_criteria over the requirement
\* usages todo, with the lists collected so far
FilterLoop(m, size, todo, reqs, crits) ==
    IF todo = <<>>
    THEN Returned([requirements |-> reqs, criteria |-> crits])
    ELSE LET requirement_sysml == Head(todo)
             definitions == requirement_sysml.definitions
         IN  IF "DE_Ecosystem_req_Def" \in definitions
             THEN LET applies == evaluate_requirement(m, requirement_sysml, size)
                  IN  IF applies.exc # None THEN applies
                      ELSE IF applies.val
                      THEN LET req == RequirementOf(requirement_sysml)
                           IN  IF req.exc # None THEN req
                               ELSE FilterLoop(m, size, Tail(todo),
                                               Append(reqs, req.val), crits)
                      ELSE FilterLoop(m, size, Tail(todo), reqs, crits)
             ELSE IF "Criteria_Def" \in definitions
             THEN LET applies == evaluate_requirement(m, requirement_sysml, size)
                  IN  IF applies.exc # None THEN applies
                      ELSE IF applies.val
                      THEN LET crit == CriteriaOfRecord(requirement_sysml)
                           IN  IF crit.exc # None THEN crit
                               ELSE FilterLoop(m, size, Tail(todo),
                                               reqs, Append(crits, crit.val))
                      ELSE FilterLoop(m, size, Tail(todo), reqs, crits)
             ELSE FilterLoop(m, size, Tail(todo), reqs, crits)

\* a filter that passes over the first requirement usage of the model
evaluate_requirements_and_criteria_after_first(m, size) ==
    FilterLoop(m, size, IF m.records = <<>> THEN <<>> ELSE Tail(m.records),
               <<>>, <<>>)

evaluate_requirements_and_criteria(m, size) ==
    FilterLoop(m, size, m.records, <<>>, <<>>)

---------------------------------------------------------------------------
(* Requirement usages and models the functions are applied to              *)

MaxRecords == 2

ReqDef == "DE_Ecosystem_req_Def"
CritDef == "Criteria_Def"

BoolConstraint(holds) == [kind |-> "bool", holds |-> holds]
BadConstraint(kind) == [kind |-> kind, holds |-> {}]

NoConstraint == <<>>
OnlySmall == <<BoolConstraint({"Small"})>>
FromMedium == <<BoolConstraint({"Medium", "Large"})>>
TwoConstraints == <<BoolConstraint(Categories), BoolConstraint(Categories)>>
FatalConstraint == <<BadConstraint("fatal")>>

\* what a requirement usage can lack; digit_id: it lacks nothing, and its
\* identifier is a number without a letter before it; twin_id: it lacks
\* nothing, and its identifier is that of the record before it with a 0
\* before the number
Defects == {"none", "short_name", "text", "context", "weight", "digit_id", "twin_id"}

Shape(definitions, constraints, defect) ==
    [definitions |-> definitions, constraints |-> constraints, defect |-> defect]

RecordShapes ==
    {Shape({d}, c, "none") :
        d \in {ReqDef, CritDef},
        c \in {NoConstraint, OnlySmall, FromMedium, TwoConstraints, FatalConstraint}}
    \cup {Shape({d}, c, x) :
        d \in {ReqDef, CritDef}, c \in {OnlySmall, FromMedium},
        x \in {"short_name", "text", "weight"}}
    \cup {Shape({CritDef}, c, "context") : c \in {OnlySmall, FromMedium}}
    \cup {Shape({ReqDef, CritDef}, OnlySmall, "none"),
          Shape({ReqDef, CritDef}, NoConstraint, "none"),
          Shape({}, NoConstraint, "short_name"),
          Shape({}, FromMedium, "none")}

\* a body as the model holds it: the text between a blank and a line break
Body(text) == <<32>> \o text \o <<10>>

\* the i-th requirement usage of a model, of the given shape: its
\* identifier is C<i> for a criteria record and R<i> for any other
RecordOf(shape, i) ==
    [name |-> i,
     short_name |->
        IF shape.defect = "short_name" THEN NoText
        ELSE IF shape.defect = "digit_id" THEN <<48 + i>>
        ELSE IF shape.defect = "twin_id"
        THEN (IF shape.definitions = {CritDef} THEN LetterC ELSE LetterR)
                 \o <<48, 48 + i - 1>>
        ELSE (IF shape.definitions = {CritDef} THEN LetterC ELSE LetterR) \o <<48 + i>>,
     definitions |-> shape.definitions,
     constraints |-> shape.constraints,
     docs |->
        [Description |->
            IF shape.defect = "text" \/ ReqDef \notin shape.definitions
            THEN NoText ELSE Body(Texts[i]),
         Criteria |->
            IF shape.defect = "text" \/ CritDef \notin shape.definitions
            THEN NoText ELSE Body(Texts[i]),
         Context |->
            IF shape.defect = "context" \/ CritDef \notin shape.definitions
            THEN NoText ELSE Body(Texts[i + 1])],
     weight |->
        IF shape.defect = "weight" THEN [kind |-> "missing", value |-> 0]
        ELSE [kind |-> "value", value |-> i]]

RecordsOf(shapes) == [i \in 1..Len(shapes) |-> RecordOf(shapes[i], i)]

RecordLists == {RecordsOf(shapes) : shapes \in SeqsUpTo(RecordShapes, MaxRecords)}

\* the rules of the spec's example, on the scale of the sums of the inputs:
\* up to NumFields Small, one more Medium, else Large
ExampleRules ==
    <<LeRule(NumFields, "Small"), LeRule(NumFields + 1, "Medium"), ElseRule("Large")>>

\* the same rules without the final else: a number can satisfy none
OpenRules == <<LeRule(NumFields, "Small"), LeRule(NumFields + 1, "Medium")>>

\* rules whose order matters: a number up to NumFields satisfies both
OverlappingRules ==
    <<LeRule(NumFields + 1, "Medium"), LeRule(NumFields, "Small"), ElseRule("Large")>>

RuleTables == {ExampleRules, OpenRules, OverlappingRules}

\* a model as parse_model returns it
LoadedModel(inputs, rules, aliased, records) ==
    [inputs |-> inputs,
     system_size_number |-> [has |-> TRUE, value |-> 0],
     system_size |-> RulesExpr,
     first_system_size |-> RefExpr("TBD"),
     aliased |-> aliased,
     rules |-> rules,
     records |-> records]

\* every input left at its placeholder, as detect_input.sysml is shipped
UnsetInputs == [i \in 1..NumFields |-> [name |-> Fields[i], expr |-> "TBD"]]

---------------------------------------------------------------------------
(* The filter applied to drawn record lists                                *)

InitFilter ==
    /\ mode = "fn"
    /\ ProgramIdle
    /\ \E records \in RecordLists, aliased \in BOOLEAN :
           model = LoadedModel(UnsetInputs, ExampleRules, aliased, records)
    /\ \E c \in Categories : arg = [system_size |-> c]
    /\ ret = NotCalled

\* one filter pass, as both callers make it (detect.py 608-610 and
\* webapp_main.py 523-528): the write-back, then the evaluation
FilterPass ==
    LET written == write_system_size(arg.system_size, model)
    IN  /\ model' = written.model
        /\ ret' = [fn |-> "evaluate_requirements_and_criteria",
                   out |-> IF written.exc # None
                           THEN Raised(written.exc)
                           ELSE evaluate_requirements_and_criteria(written.model,
                                                                   arg.system_size)]
        /\ UNCHANGED <<mode, arg, progVars>>

\* a later classification of the same session yields another category
NextCategory ==
    /\ ret # NotCalled
    /\ \E c \in Categories \ {arg.system_size} : arg' = [system_size |-> c]
    /\ ret' = NotCalled
    /\ UNCHANGED <<mode, model, progVars>>

NextFilter == FilterPass \/ NextCategory

SpecFilter == InitFilter /\ [][NextFilter]_vars

---------------------------------------------------------------------------
(* Claims about the filter (SpecFilter)                                    *)

FilterCalled == ret.fn = "evaluate_requirements_and_criteria"

\* the record is read as a requirement / as a criteria record
IsRequirementRecord(r) == ReqDef \in r.definitions
IsCriteriaRecord(r) == CritDef \in r.definitions /\ ReqDef \notin r.definitions

\* the applicability predicate of a record holds for category c
PredicateTrue(r, c) ==
    /\ Len(r.constraints) = 1
    /\ r.constraints[1].kind = "bool"
    /\ c \in r.constraints[1].holds

\* the places of the records of one kind that apply for category c
ApplicablePlaces(IsKind(_), c) ==
    {i \in 1..Len(model.records) :
        IsKind(model.records[i]) /\ PredicateTrue(model.records[i], c)}

\* the k-th smallest member of a set of places
NthPlace(S, k) == CHOOSE x \in S : Cardinality({y \in S : y < x}) = k - 1

\* C5: evaluate_requirements_and_criteria returns exactly the records whose
\* applicability predicate is true for the category: each applicable
\* requirement and criteria record once, and no other record.
C5_ExactlyTheApplicable ==
    (FilterCalled /\ ret.out.exc = None) =>
        LET reqs == ApplicablePlaces(IsRequirementRecord, arg.system_size)
            crits == ApplicablePlaces(IsCriteriaRecord, arg.system_size)
            out == ret.out.val
        IN  /\ Len(out.requirements) = Cardinality(reqs)
            /\ \A k \in 1..Len(out.requirements) :
                   LET r == model.records[NthPlace(reqs, k)]
                   IN  /\ out.requirements[k].id = r.short_name
                       /\ out.requirements[k].value = r.weight.value
                       /\ Body(out.requirements[k].description) = r.docs["Description"]
            /\ Len(out.criteria) = Cardinality(crits)
            /\ \A k \in 1..Len(out.criteria) :
                   LET r == model.records[NthPlace(crits, k)]
                   IN  /\ out.criteria[k].id = r.short_name
                       /\ out.criteria[k].value = r.weight.value
                       /\ Body(out.criteria[k].criteria) = r.docs["Criteria"]
                       /\ Body(out.criteria[k].context) = r.docs["Context"]

\* a pass that returned both an applicable and an inapplicable record's verdict
C5_Witness ==
    /\ FilterCalled
    /\ ret.out.exc = None
    /\ Len(model.records) = 2
    /\ Len(ret.out.val.requirements) = 1
    /\ Len(ret.out.val.criteria) = 0
    /\ IsRequirementRecord(model.records[1])
    /\ IsRequirementRecord(model.records[2])
    /\ arg.system_size = "Large"

\* C6: a requirement or criteria record with no predicate, or with more than
\* one, makes evaluate_requirements_and_criteria end in an error without
\* lists, wherever the record is and whatever the other records evaluate to.
C6_PredicateCountError ==
    (FilterCalled /\ \E i \in 1..Len(model.records) :
                         /\ IsRequirementRecord(model.records[i])
                                \/ IsCriteriaRecord(model.records[i])
                         /\ Len(model.records[i].constraints) # 1)
        => ret.out.exc = "ValueError" /\ ret.out.val = None

\* the record with two predicates comes second, after a record that applies
C6_Witness ==
    /\ FilterCalled
    /\ Len(model.records) = 2
    /\ PredicateTrue(model.records[1], arg.system_size)
    /\ model.records[1].short_name # NoText
    /\ IsCriteriaRecord(model.records[2])
    /\ Len(model.records[2].constraints) = 2
    /\ ret.out.exc = "ValueError"
    /\ ret.out.why = "constraints"

\* the record lacks its short name, its description (criteria, context) text
\* or its weight
LacksField(r) ==
    \/ r.short_name = NoText
    \/ r.weight.kind = "missing"
    \/ IsRequirementRecord(r) /\ r.docs["Description"] = NoText
    \/ IsCriteriaRecord(r) /\ (r.docs["Criteria"] = NoText \/ r.docs["Context"] = NoText)

\* C7: a requirement or criteria record that lacks its short name, its text
\* or its weight makes evaluate_requirements_and_criteria raise, whether or
\* not the predicate of that record is true for the category.
C7_MissingFieldRaises ==
    (FilterCalled /\ \E i \in 1..Len(model.records) :
                         /\ IsRequirementRecord(model.records[i])
                                \/ IsCriteriaRecord(model.records[i])
                         /\ LacksField(model.records[i]))
        => ret.out.exc # None

\* what does hold: the missing field raises when the record applies
MissingFieldRaisesWhenApplicable ==
    (FilterCalled /\ \E i \in 1..Len(model.records) :
                         /\ IsRequirementRecord(model.records[i])
                                \/ IsCriteriaRecord(model.records[i])
                         /\ LacksField(model.records[i])
                         /\ PredicateTrue(model.records[i], arg.system_size))
        => ret.out.exc # None

---------------------------------------------------------------------------
(* system_size_calculation applied to drawn selection mappings             *)

MaxKeys == 3
MaxCalls == 2

\* the mappings of up to MaxKeys field names to positive weights, as dicts:
\* their items in insertion order, no name twice
SelectionDicts ==
    {d \in SeqsUpTo([name : {FieldNames[i] : i \in 1..Len(FieldNames)},
                     value : 1..MaxWeight], MaxKeys) :
        \A i, j \in 1..Len(d) : i # j => d[i].name # d[j].name}

InitSum ==
    /\ mode = "fn"
    /\ model = None
    /\ ProgramIdle
    /\ \E d \in SelectionDicts : arg = [data |-> d]
    /\ ret = [fn |-> "system_size_calculation", first |-> <<>>, out |-> <<>>]

\* one more call with the mapping as it is now: the log keeps the mapping of
\* the first call, and of every call its result and whether the keys were in
\* another order than at the first
CallSystemSizeCalculation ==
    /\ Len(ret.out) < MaxCalls
    /\ ret' = [fn |-> ret.fn,
               first |-> IF ret.out = <<>> THEN arg.data ELSE ret.first,
               out |-> Append(ret.out,
                              [reordered |-> ret.out # <<>> /\ arg.data # ret.first,
                               sum |-> system_size_calculation(arg.data)])]
    /\ UNCHANGED <<mode, arg, model, progVars>>

\* the same mapping with two neighbouring keys in the other order
ReorderKeys ==
    /\ \E i \in 1..(Len(arg.data) - 1) :
           arg' = [data |-> [k \in 1..Len(arg.data) |->
                                IF k = i THEN arg.data[i + 1]
                                ELSE IF k = i + 1 THEN arg.data[i]
                                ELSE arg.data[k]]]
    /\ UNCHANGED <<mode, ret, model, progVars>>

NextSum == CallSystemSizeCalculation \/ ReorderKeys

SpecSum == InitSum /\ [][NextSum]_vars

\* the arithmetic sum of positive weights: as many units as all the weights
\* hold together
ArithmeticSum(d) ==
    Cardinality({<<i, u>> \in (1..Len(d)) \X (1..MaxWeight) : u <= d[i].value})

\* C1: for every mapping of field names to positive weights
\* system_size_calculation returns the arithmetic sum of the weights, the
\* same for every order of the keys and on every repeated call.
C1_ExactSum ==
    \A k \in 1..Len(ret.out) :
        /\ ret.out[k].sum = ArithmeticSum(arg.data)
        /\ ret.out[k].sum = ret.out[1].sum

\* two calls on the same mapping of three keys, in two different key orders
C1_Witness ==
    /\ Len(ret.out) = 2
    /\ Len(arg.data) = 3
    /\ ret.out[2].reordered
    /\ ret.out[1].sum = ret.out[2].sum
    /\ \E i, j \in 1..3 : arg.data[i].value # arg.data[j].value

---------------------------------------------------------------------------
(* webapp_main.py: the form                                                *)

FieldTitles == <<"Project Status", "Team Size", "Tool Count", "Site Count">>

\* field_name.replace("_", " ").title()
TitleOf(field_name) ==
    FieldTitles[CHOOSE i \in 1..Len(FieldNames) : FieldNames[i] = field_name]

\* the attribute usages of DETECT_Inputs in the DE_Ecosystem definition, in
\* model order: the inputs, and after the first of them the unfinished
\* attribute whose type is no enumeration
InputDefinitions ==
    LET input(i) == [name |-> Fields[i], is_enum |-> TRUE,
                     description |-> Texts[1], question |-> Texts[2],
                     options |-> OptionsOf(Fields[i])]
        unfinished == [name |-> "unfinished", is_enum |-> FALSE,
                       description |-> NoText, question |-> NoText, options |-> <<>>]
    IN  <<input(1), unfinished>> \o [i \in 1..(NumFields - 1) |-> input(i + 1)]

RECURSIVE AvailableInputsLoop(_)
\* the loop of get_available_inputs: a FieldInput per input whose type is an
\* enumeration, the others skipped
AvailableInputsLoop(defs) ==
    IF defs = <<>> THEN Returned(<<>>)
    ELSE LET input_definition == Head(defs)
             rest == AvailableInputsLoop(Tail(defs))
         IN  IF ~input_definition.is_enum THEN rest
             ELSE IF input_definition.description = NoText THEN Raised("ValueError")
             ELSE IF input_definition.question = NoText THEN Raised("ValueError")
             ELSE IF rest.exc # None THEN rest
             ELSE Returned(<<[field_name |-> input_definition.name,
                              description |-> input_definition.description,
                              dropdown_question |-> input_definition.question,
                              data_selections |-> input_definition.options]>>
                           \o rest.val)

\* the inputs returned in the opposite of their order in the model
get_available_inputs_reversed(m) ==
    LET found == AvailableInputsLoop(InputDefinitions)
    IN  IF found.exc # None THEN found
        ELSE Returned([i \in 1..Len(found.val) |-> found.val[Len(found.val) + 1 - i]])

\* the inputs the loop finds in the definitions of the library
AvailableInputs == AvailableInputsLoop(InputDefinitions)

get_available_inputs(m) == AvailableInputs

RECURSIVE InsertByValue(_, _, _)
InsertByValue(run, item, i) ==
    IF i = 0 THEN <<item>> \o run
    ELSE IF item.value < run[i].value THEN InsertByValue(run, item, i - 1)
    ELSE SubSeq(run, 1, i) \o <<item>> \o SubSeq(run, i + 1, Len(run))

RECURSIVE SortedByValue(_, _)
\* sorted(options_dict.items(), key=lambda x: x[1])
SortedByValue(run, todo) ==
    IF todo = <<>> THEN run
    ELSE SortedByValue(InsertByValue(run, Head(todo), Len(run)), Tail(todo))

\* augment_config_with_defaults: per field the labels in ascending order of
\* their values, and the map from label to value
augment_config_with_defaults(field_inputs) ==
    [i \in 1..Len(field_inputs) |->
        LET sorted_items == SortedByValue(<<>>, field_inputs[i].data_selections)
        IN  [field_name |-> field_inputs[i].field_name,
             description |-> field_inputs[i].description,
             placeholder |-> field_inputs[i].dropdown_question,
             options |-> [k \in 1..Len(sorted_items) |-> sorted_items[k].label],
             label_to_id_map |-> sorted_items]]

\* dynamic_options of main_page (lines 420-424)
DynamicOptions(m) == augment_config_with_defaults(get_available_inputs(m).val)

\* a lookup that finds no label in the map
IdOfLabel_unmapped(config, selected_label) == NoNumber

\* config.get("label_to_id_map", {}).get(selected_label, None)
IdOfLabel(config, selected_label) ==
    LET hits == {k \in 1..Len(config.label_to_id_map) :
                    config.label_to_id_map[k].label = selected_label}
    IN  IF hits = {} THEN NoNumber
        ELSE config.label_to_id_map[CHOOSE k \in hits : TRUE].value

RECURSIVE CollectSelections(_, _, _, _)
\* the loop of submit_form over data.items() (lines 452-459)
CollectSelections(configs, selected, fields_with_tbd, inputs_data) ==
    IF configs = <<>>
    THEN [fields_with_tbd |-> fields_with_tbd, inputs_data |-> inputs_data]
    ELSE LET config == Head(configs)
             internal_id == IdOfLabel(config, selected[config.field_name])
         IN  CollectSelections(
                 Tail(configs), selected,
                 IF internal_id = 0
                 THEN Append(fields_with_tbd, TitleOf(config.field_name))
                 ELSE fields_with_tbd,
                 IF internal_id # NoNumber
                 THEN DictSet(inputs_data, config.field_name, internal_id)
                 ELSE inputs_data)

EmptyCard == [kind |-> "empty", fields |-> <<>>, name |-> None]
TbdCard(fields) == [kind |-> "tbd", fields |-> fields, name |-> None]
SizeCard(name) == [kind |-> "size", fields |-> <<>>, name |-> name]
ErrorCard(e) == [kind |-> "error", fields |-> <<>>, name |-> e]

NoTables == [visible |-> FALSE, filled |-> FALSE,
             requirements_csv |-> <<>>, criteria_csv |-> <<>>,
             requirements_table |-> <<>>, criteria_table |-> <<>>]

\* main_page up to the layout: every field at its first option, nothing
\* calculated, the second button and the tables hidden
InitWeb ==
    /\ mode = "web"
    /\ data = [f \in {Fields[i] : i \in 1..NumFields} |->
                  LET config == CHOOSE c \in {DynamicOptions(model)[k] :
                                                 k \in 1..Len(DynamicOptions(model))} :
                                    c.field_name = f
                  IN  config.options[1]]
    /\ state = [calculated_system_size |-> None,
                calculated_system_size_number |-> NoNumber]
    /\ result_card = EmptyCard
    /\ second_button_visible = FALSE
    /\ tableviews = NoTables
    /\ notification = None
    /\ last = [handler |-> "main_page", calls |-> <<>>]

\* an on_change that stores the value of a cleared dropdown as it comes
on_change_unchecked(config, value, selected) ==
    [selected EXCEPT ![config.field_name] = value]

\* the on_change lambda of a dropdown (lines 667-671): data.update with the
\* chosen label, or with the first option when the dropdown was cleared
on_change(config, value, selected) ==
    [selected EXCEPT ![config.field_name] =
        IF value # None THEN value ELSE config.options[1]]

\* a dropdown changes: ui.select offers the options of the field, and None
\* when it is cleared
OnChange ==
    /\ mode = "web"
    /\ LET dynamic_options == DynamicOptions(model)
       IN  \E k \in 1..Len(dynamic_options) :
               LET config == dynamic_options[k]
               IN  \E value \in {config.options[i] : i \in 1..Len(config.options)}
                                \cup {None} :
                       data' = on_change(config, value, data)
    /\ last' = [handler |-> "on_change", calls |-> <<>>]
    /\ notification' = None
    /\ UNCHANGED <<mode, fnVars, model, cliVars, state, result_card,
                   second_button_visible, tableviews>>

\* submit_form
SubmitForm ==
    /\ mode = "web"
    /\ LET seen == CollectSelections(DynamicOptions(model), data, <<>>, <<>>)
       IN  IF seen.fields_with_tbd # <<>>
           THEN /\ result_card' = TbdCard(seen.fields_with_tbd)
                /\ last' = [handler |-> "submit_form", calls |-> <<>>]
                /\ UNCHANGED <<model, state, second_button_visible>>
           ELSE LET sys_num == system_size_calculation(seen.inputs_data)
                    sys_size_obj == calculate_system_size(model, sys_num)
                IN  /\ model' = sys_size_obj.model
                    /\ last' = [handler |-> "submit_form",
                                calls |-> <<"system_size_calculation",
                                            "calculate_system_size">>]
                    /\ IF sys_size_obj.exc = None
                       THEN /\ state' = [calculated_system_size |-> sys_size_obj.val,
                                         calculated_system_size_number |-> sys_num]
                            /\ result_card' = SizeCard(sys_size_obj.val)
                            /\ second_button_visible' = TRUE
                       ELSE /\ state' = [state EXCEPT
                                            !.calculated_system_size_number = NoNumber]
                            /\ result_card' = ErrorCard(sys_size_obj.exc)
                            /\ second_button_visible' = FALSE
    /\ notification' = None
    /\ UNCHANGED <<mode, fnVars, cliVars, data, tableviews>>

\* a handler without the early return of lines 513-519: it goes on to the
\* write-back with whatever is stored
ProcessWithSystemSize_unguarded ==
    /\ mode = "web"
    /\ LET written == write_system_size(state.calculated_system_size, model)
       IN  /\ model' = written.model
           /\ last' = [handler |-> "process_with_system_size",
                       calls |-> <<"write_system_size">>]
           /\ notification' = "negative"
           /\ tableviews' = [tableviews EXCEPT !.visible = FALSE]
    /\ UNCHANGED <<mode, fnVars, cliVars, data, state, result_card, second_button_visible>>

\* process_with_system_size
ProcessWithSystemSize ==
    /\ mode = "web"
    /\ LET current_size == state.calculated_system_size
       IN  IF current_size = None
           THEN /\ notification' = "warning"
                /\ last' = [handler |-> "process_with_system_size",
                            calls |-> <<>>]
                /\ UNCHANGED <<model, tableviews>>
           ELSE LET written == write_system_size(current_size, model)
                    evaluated == evaluate_requirements_and_criteria(written.model,
                                                                    current_size)
                    reqs == IF evaluated.exc = None THEN evaluated.val.requirements ELSE <<>>
                    crits == IF evaluated.exc = None THEN evaluated.val.criteria ELSE <<>>
                    requirements_csv == generate_csv_content_requirements(reqs)
                    criteria_csv == generate_csv_content_criteria(crits)
                    requirements_table == create_requirements_tableview(reqs)
                    criteria_table == create_criteria_tableview(crits)
                IN  /\ model' = written.model
                    /\ IF written.exc # None
                       THEN /\ last' = [handler |-> "process_with_system_size",
                                        calls |-> <<"write_system_size">>]
                            /\ notification' = "negative"
                            /\ tableviews' = [tableviews EXCEPT !.visible = FALSE]
                       ELSE IF evaluated.exc # None
                       THEN /\ last' = [handler |-> "process_with_system_size",
                                        calls |-> <<"write_system_size",
                                                    "evaluate_requirements_and_criteria">>]
                            /\ notification' = "negative"
                            /\ tableviews' = [tableviews EXCEPT !.visible = FALSE]
                       ELSE /\ last' = [handler |-> "process_with_system_size",
                                        calls |-> <<"write_system_size",
                                                    "evaluate_requirements_and_criteria",
                                                    "generate_csv_content_requirements">>]
                            /\ IF requirements_csv.exc # None \/ criteria_csv.exc # None
                               THEN /\ notification' = "negative"
                                    /\ tableviews' = [tableviews EXCEPT !.visible = FALSE]
                               ELSE /\ notification' = None
                                    /\ tableviews' =
                                           [visible |-> TRUE, filled |-> TRUE,
                                            requirements_csv |-> requirements_csv.val,
                                            criteria_csv |-> criteria_csv.val,
                                            requirements_table |-> requirements_table.val,
                                            criteria_table |-> criteria_table.val]
    /\ UNCHANGED <<mode, fnVars, cliVars, data, state, result_card, second_button_visible>>

---------------------------------------------------------------------------
(* The program: detect.py run as a script, and a session of the form       *)

Always == <<BoolConstraint(Categories)>>

RECURSIVE Reversed(_)
Reversed(s) == IF s = <<>> THEN <<>> ELSE Append(Reversed(Tail(s)), Head(s))

\* the requirement usages of the loaded files: records of both kinds that
\* apply to some categories, in descending order of their identifiers
MixedRecords ==
    Reversed(RecordsOf(<<Shape({ReqDef}, Always, "none"),
                         Shape({CritDef}, OnlySmall, "none"),
                         Shape({ReqDef}, FromMedium, "none"),
                         Shape({CritDef}, Always, "none")>>))

\* the second record carries no constraint
ShapeErrorRecords ==
    RecordsOf(<<Shape({ReqDef}, Always, "none"), Shape({ReqDef}, NoConstraint, "none")>>)

\* a record without short name that applies to Small only
MissingFieldRecords ==
    RecordsOf(<<Shape({ReqDef}, OnlySmall, "short_name"), Shape({CritDef}, Always, "none")>>)

\* the identifiers "R1" and "2"
DigitIdRecords ==
    RecordsOf(<<Shape({ReqDef}, Always, "none"), Shape({ReqDef}, Always, "digit_id")>>)

\* the identifiers "R1" and "R01", and "C3" and "C03"
TwinIdRecords ==
    RecordsOf(<<Shape({ReqDef}, Always, "none"), Shape({ReqDef}, Always, "twin_id"),
                Shape({CritDef}, Always, "none"), Shape({CritDef}, Always, "twin_id")>>)

ProgramRecordLists ==
    {MixedRecords, ShapeErrorRecords, MissingFieldRecords, DigitIdRecords, TwinIdRecords}

\* what the ecosystem of a loaded model can lack
ModelDefects == {"no_system_size_number", "no_system_size", "no_value_expression"}

WithDefect(m, defect) ==
    IF defect = "no_system_size_number"
    THEN [m EXCEPT !.system_size_number.has = FALSE]
    ELSE IF defect = "no_system_size"
    THEN [m EXCEPT !.system_size = [kind |-> "missing", cat |-> None]]
    ELSE [m EXCEPT !.system_size = [kind |-> "no_expression", cat |-> None]]

\* the value expressions detect_input.sysml can give the inputs: an option of
\* the field each, TBD included, or none at all
InputChoices ==
    {inputs \in [1..NumFields ->
                    [name : {Fields[i] : i \in 1..NumFields},
                     expr : {"TBD", "no_expression"}
                            \cup {OptionLabels[w] : w \in 1..MaxWeight}]] :
        /\ \A i \in 1..NumFields : inputs[i].name = Fields[i]
        /\ Cardinality({i \in 1..NumFields : inputs[i].expr = "no_expression"}) <= 1}

\* the models a run of the script is drawn from: every record list under the
\* rules of the example, every rule table over the mixed records, the mixed
\* records in an ecosystem that lacks an attribute, and the mixed records in
\* a model whose first attribute named system_size is another attribute than
\* the ecosystem's and has no value
LoadedModels(input_choices) ==
    {LoadedModel(inputs, ExampleRules, aliased, records) :
        inputs \in input_choices, aliased \in BOOLEAN, records \in ProgramRecordLists}
    \cup {LoadedModel(inputs, rules, aliased, MixedRecords) :
        inputs \in input_choices, rules \in RuleTables, aliased \in BOOLEAN}
    \cup {WithDefect(LoadedModel(inputs, ExampleRules, aliased, MixedRecords), defect) :
        inputs \in input_choices, aliased \in BOOLEAN, defect \in ModelDefects}
    \cup {[LoadedModel(inputs, ExampleRules, FALSE, MixedRecords)
               EXCEPT !.first_system_size = [kind |-> "no_expression", cat |-> None]] :
        inputs \in input_choices}

\* the models a session of the form is drawn from
SessionModels ==
    {LoadedModel(UnsetInputs, ExampleRules, aliased, records) :
        aliased \in BOOLEAN,
        records \in {MixedRecords, MissingFieldRecords, DigitIdRecords}}
    \cup {LoadedModel(UnsetInputs, OpenRules, aliased, MixedRecords) : aliased \in BOOLEAN}
    \cup {WithDefect(LoadedModel(UnsetInputs, ExampleRules, aliased, MixedRecords), defect) :
        aliased \in BOOLEAN, defect \in ModelDefects}

NoException == [type |-> None, at |-> None, field |-> None, why |-> None]

InitCli ==
    /\ mode = "cli"
    /\ pc = "start"
    /\ system_size_number = NoNumber
    /\ system_size = None
    /\ requirements = <<>>
    /\ criteria = <<>>
    /\ files = [f \in {"requirements.csv", "criteria.csv"} |-> NoFile]
    /\ stdout = <<>>
    /\ exc = NoException
    /\ last = [handler |-> "parse_model", calls |-> <<>>]

CliIdle ==
    /\ pc = None
    /\ system_size_number = NoNumber
    /\ system_size = None
    /\ requirements = <<>>
    /\ criteria = <<>>
    /\ files = [f \in {"requirements.csv", "criteria.csv"} |-> NoFile]
    /\ stdout = <<>>
    /\ exc = None

WebIdle ==
    /\ data = None
    /\ state = None
    /\ result_card = None
    /\ second_button_visible = FALSE
    /\ tableviews = None
    /\ notification = None

Init ==
    /\ arg = None
    /\ ret = NotCalled
    /\ \/ /\ model \in LoadedModels(InputChoices)
          /\ InitCli
          /\ WebIdle
       \/ /\ model \in SessionModels
          /\ InitWeb
          /\ CliIdle

\* an exception that leaves __main__: the run ends
Terminated(type, at, field, why) ==
    /\ pc' = "raised"
    /\ exc' = [type |-> type, at |-> at, field |-> field, why |-> why]

\* __main__ line 596
GetSystemSizeNumber ==
    /\ mode = "cli" /\ pc = "start"
    /\ LET number == get_system_size_number(model)
       IN  IF number.exc # None
           THEN /\ Terminated(number.exc, "get_system_size_number",
                              number.field, number.why)
                /\ last' = [handler |-> "get_system_size_number",
                            calls |-> <<>>]
                /\ UNCHANGED system_size_number
           ELSE /\ system_size_number' = number.val
                /\ pc' = "number"
                /\ last' = [handler |-> "get_system_size_number",
                            calls |-> <<"system_size_calculation">>]
                /\ UNCHANGED exc
    /\ UNCHANGED <<mode, fnVars, model, system_size, requirements, criteria,
                   files, stdout, webVars>>

\* __main__ lines 600-606
CalculateSystemSize ==
    /\ mode = "cli" /\ pc = "number"
    /\ LET size == calculate_system_size(model, system_size_number)
       IN  /\ model' = size.model
           /\ last' = [handler |-> "calculate_system_size",
                       calls |-> <<"calculate_system_size">>]
           /\ IF size.exc # None
              THEN /\ Terminated(size.exc, "calculate_system_size", None, None)
                   /\ UNCHANGED <<system_size, stdout>>
              ELSE /\ system_size' = size.val
                   /\ stdout' = Append(stdout, size.val)
                   /\ pc' = "printed"
                   /\ UNCHANGED exc
    /\ UNCHANGED <<mode, fnVars, system_size_number, requirements, criteria,
                   files, webVars>>

\* __main__ line 608
WriteSystemSize ==
    /\ mode = "cli" /\ pc = "printed"
    /\ LET written == write_system_size(system_size, model)
       IN  /\ model' = written.model
           /\ last' = [handler |-> "write_system_size",
                       calls |-> <<"write_system_size">>]
           /\ IF written.exc # None
              THEN Terminated(written.exc, "write_system_size", None, None)
              ELSE pc' = "written" /\ UNCHANGED exc
    /\ UNCHANGED <<mode, fnVars, system_size_number, system_size, requirements,
                   criteria, files, stdout, webVars>>

\* a run that degrades gracefully: when the filter raises it goes on with
\* empty lists
EvaluateRequirementsAndCriteria_lenient ==
    /\ mode = "cli" /\ pc = "written"
    /\ LET evaluated == evaluate_requirements_and_criteria(model, system_size)
       IN  /\ last' = [handler |-> "evaluate_requirements_and_criteria",
                       calls |-> <<"evaluate_requirements_and_criteria">>]
           /\ requirements' = IF evaluated.exc # None THEN <<>>
                              ELSE evaluated.val.requirements
           /\ criteria' = IF evaluated.exc # None THEN <<>>
                          ELSE evaluated.val.criteria
           /\ pc' = "evaluated"
           /\ UNCHANGED exc
    /\ UNCHANGED <<mode, fnVars, model, system_size_number, system_size,
                   files, stdout, webVars>>

\* __main__ line 610
EvaluateRequirementsAndCriteria ==
    /\ mode = "cli" /\ pc = "written"
    /\ LET evaluated == evaluate_requirements_and_criteria(model, system_size)
       IN  /\ last' = [handler |-> "evaluate_requirements_and_criteria",
                       calls |-> <<"evaluate_requirements_and_criteria">>]
           /\ IF evaluated.exc # None
              THEN /\ Terminated(evaluated.exc, "evaluate_requirements_and_criteria",
                                 None, evaluated.why)
                   /\ UNCHANGED <<requirements, criteria>>
              ELSE /\ requirements' = evaluated.val.requirements
                   /\ criteria' = evaluated.val.criteria
                   /\ pc' = "evaluated"
                   /\ UNCHANGED exc
    /\ UNCHANGED <<mode, fnVars, model, system_size_number, system_size,
                   files, stdout, webVars>>

\* __main__ line 612
SaveRequirements ==
    /\ mode = "cli" /\ pc = "evaluated"
    /\ LET saved == save_requirements_to_csv(requirements)
       IN  /\ files' = [files EXCEPT !["requirements.csv"] =
                           [exists |-> TRUE, rows |-> saved.file]]
           /\ last' = [handler |-> "save_requirements_to_csv",
                       calls |-> <<"save_requirements_to_csv">>]
           /\ IF saved.exc # None
              THEN Terminated(saved.exc, "save_requirements_to_csv", None, None)
              ELSE pc' = "saved_requirements" /\ UNCHANGED exc
    /\ UNCHANGED <<mode, fnVars, model, system_size_number, system_size,
                   requirements, criteria, stdout, webVars>>

\* __main__ line 613
SaveCriteria ==
    /\ mode = "cli" /\ pc = "saved_requirements"
    /\ LET saved == save_criteria_to_csv(criteria)
       IN  /\ files' = [files EXCEPT !["criteria.csv"] =
                           [exists |-> TRUE, rows |-> saved.file]]
           /\ last' = [handler |-> "save_criteria_to_csv",
                       calls |-> <<"save_criteria_to_csv">>]
           /\ IF saved.exc # None
              THEN Terminated(saved.exc, "save_criteria_to_csv", None, None)
              ELSE pc' = "done" /\ UNCHANGED exc
    /\ UNCHANGED <<mode, fnVars, model, system_size_number, system_size,
                   requirements, criteria, stdout, webVars>>

Next ==
    \/ GetSystemSizeNumber
    \/ CalculateSystemSize
    \/ WriteSystemSize
    \/ EvaluateRequirementsAndCriteria
    \/ SaveRequirements
    \/ SaveCriteria
    \/ OnChange
    \/ SubmitForm
    \/ ProcessWithSystemSize

Spec == Init /\ [][Next]_vars

---------------------------------------------------------------------------
(* Claims about the program (Spec)                                         *)

\* the weight the model gives an option of a field
OptionWeight(field, label) ==
    LET opts == OptionsOf(field)
    IN  (CHOOSE o \in {opts[i] : i \in 1..Len(opts)} : o.label = label).value

\* the inputs of the model that are still TBD
TbdInputs == {i \in 1..NumFields : model.inputs[i].expr = "TBD"}

\* the fields at TBD; right after a submission, the fields it saw at TBD
TbdSelections ==
    {i \in 1..NumFields : OptionWeight(Fields[i], data[Fields[i]]) = 0}

Submitted == mode = "web" /\ last.handler = "submit_form"

\* C2: a selection with a field at weight 0 is rejected before a sum is
\* produced. Script: with an input at TBD the run ends in get_system_size_number
\* with a ValueError, system_size_calculation and calculate_system_size are not
\* called, nothing is printed. Form: a submission with a field at TBD calls
\* neither and shows the TBD message.
C2_TbdRejectedBeforeSum ==
    /\ (mode = "cli" /\ pc # "start" /\ TbdInputs # {}) =>
          /\ pc = "raised"
          /\ exc.type = "ValueError"
          /\ exc.at = "get_system_size_number"
          /\ last.calls = <<>>
          /\ system_size_number = NoNumber
          /\ system_size = None
          /\ stdout = <<>>
    /\ (Submitted /\ TbdSelections # {}) =>
          /\ last.calls = <<>>
          /\ result_card.kind = "tbd"

\* a submission with a field at TBD is rejected in a session that has
\* classified an earlier selection
C2_Witness ==
    /\ Submitted
    /\ TbdSelections # {}
    /\ state.calculated_system_size \in Categories
    /\ result_card.kind = "tbd"

RECURSIVE TitlesOf(_, _)
\* the titles of the fields of S from the i-th on, in the order of the form
TitlesOf(S, i) ==
    IF i > NumFields THEN <<>>
    ELSE (IF i \in S THEN <<TitleOf(Fields[i])>> ELSE <<>>) \o TitlesOf(S, i + 1)

\* C3: the error for fields at the placeholder names every such field: the
\* ValueError of get_system_size_number, and the message of submit_form
C3_NamesEveryTbdField ==
    /\ (mode = "cli" /\ pc = "raised" /\ exc.at = "get_system_size_number"
            /\ exc.why = "TBD") =>
          {exc.field} = {Fields[i] : i \in TbdInputs}
    /\ (Submitted /\ result_card.kind = "tbd") =>
          result_card.fields = TitlesOf(TbdSelections, 1)

\* what the script does instead: its error names the first input at TBD; the
\* form names them all
TbdErrorNamesFirstField ==
    /\ (mode = "cli" /\ pc = "raised" /\ exc.at = "get_system_size_number"
            /\ exc.why = "TBD") =>
          /\ exc.field \in {Fields[i] : i \in TbdInputs}
          /\ \A i \in TbdInputs :
                 exc.field = Fields[i] \/ \E k \in 1..(i - 1) : exc.field = Fields[k]
    /\ (Submitted /\ result_card.kind = "tbd") =>
          result_card.fields = TitlesOf(TbdSelections, 1)

\* the category of the first rule, in order, that the number satisfies
FirstMatch(rules, number) ==
    LET hits == {k \in 1..Len(rules) : RuleHolds(rules[k], number)}
    IN  IF hits = {} THEN None
        ELSE rules[CHOOSE k \in hits : \A j \in hits : k <= j].cat

\* a model whose ecosystem has the attributes the lookup reads
HasSizeAttributes(m) ==
    m.system_size_number.has /\ m.system_size.kind \in {"rules", "ref"}

\* the sum of the weights of the selection; right after a submission, of the
\* selection submitted
SubmittedNumber ==
    SumFrom(0, [i \in 1..NumFields |-> OptionWeight(Fields[i], data[Fields[i]])])

\* C4: the category lookup returns the category of the first threshold rule
\* the Size Number satisfies, and ends in an error when the number satisfies
\* none: in the script after calculate_system_size, in the form after a
\* submission that reached calculate_system_size
C4_FirstMatchingRule ==
    /\ (mode = "cli" /\ last.handler = "calculate_system_size"
            /\ HasSizeAttributes(model)) =>
          IF FirstMatch(model.rules, system_size_number) \in Categories
          THEN pc = "printed" /\ system_size = FirstMatch(model.rules, system_size_number)
          ELSE pc = "raised"
    /\ (Submitted /\ last.calls # <<>> /\ HasSizeAttributes(model)) =>
          IF FirstMatch(model.rules, SubmittedNumber) \in Categories
          THEN result_card = SizeCard(FirstMatch(model.rules, SubmittedNumber))
          ELSE result_card.kind = "error"

\* what holds: the lookup is the first matching rule as long as the attribute
\* calculate_system_size evaluates still has the threshold expression
FirstMatchingRuleOfThresholds ==
    /\ (mode = "cli" /\ last.handler = "calculate_system_size"
            /\ HasSizeAttributes(model)) =>
          IF FirstMatch(model.rules, system_size_number) \in Categories
          THEN pc = "printed" /\ system_size = FirstMatch(model.rules, system_size_number)
          ELSE pc = "raised"
    /\ (Submitted /\ last.calls # <<>> /\ model.system_size.kind = "rules"
            /\ model.system_size_number.has) =>
          IF FirstMatch(model.rules, SubmittedNumber) \in Categories
          THEN result_card = SizeCard(FirstMatch(model.rules, SubmittedNumber))
          ELSE result_card.kind = "error"

---------------------------------------------------------------------------
(* Claims about the order of the records (Spec)                            *)

\* the orderings of a list
Orderings(s) ==
    {[i \in 1..Len(s) |-> s[f[i]]] :
        f \in {g \in [1..Len(s) -> 1..Len(s)] :
                  \A i, j \in 1..Len(s) : i # j => g[i] # g[j]}}

\* the rows the script writes for the model with its records in the order p
RowsFor(p) ==
    LET evaluated == evaluate_requirements_and_criteria([model EXCEPT !.records = p],
                                                        system_size)
    IN  IF evaluated.exc # None
        THEN [exc |-> evaluated.exc, requirements |-> <<>>, criteria |-> <<>>]
        ELSE [exc |-> None,
              requirements |-> save_requirements_to_csv(evaluated.val.requirements).file,
              criteria |-> save_criteria_to_csv(evaluated.val.criteria).file]

ScriptDone == mode = "cli" /\ pc = "done"

\* C11: the order in which the records are evaluated is irrelevant to the
\* output: the rows a finished run has written are the rows it writes for
\* every other order of the same records in the model, also when two records
\* have identifiers of equal sort key.
C11_OrderIrrelevant ==
    ScriptDone =>
        \A p \in Orderings(model.records) :
            /\ RowsFor(p).exc = None
            /\ RowsFor(p).requirements = files["requirements.csv"].rows
            /\ RowsFor(p).criteria = files["criteria.csv"].rows

\* the sort keys of the identifiers of the records are pairwise different
DistinctKeys ==
    \A i, j \in 1..Len(model.records) :
        (i # j /\ model.records[i].short_name # NoText
               /\ model.records[j].short_name # NoText) =>
            natural_sort_key(model.records[i].short_name)
                # natural_sort_key(model.records[j].short_name)

\* what holds: the order is irrelevant when no two identifiers have the same
\* sort key; the sort is stable, records of equal key stay in model order
OrderIrrelevantForDistinctKeys ==
    (ScriptDone /\ DistinctKeys) =>
        \A p \in Orderings(model.records) :
            /\ RowsFor(p).exc = None
            /\ RowsFor(p).requirements = files["requirements.csv"].rows
            /\ RowsFor(p).criteria = files["criteria.csv"].rows

---------------------------------------------------------------------------
(* The bytes of the exported csv content                                   *)

RECURSIVE Concat(_, _, _)
\* the texts parts[lo..hi] one after the other
Concat(parts, lo, hi) ==
    IF lo > hi THEN <<>>
    ELSE IF lo = hi THEN parts[lo]
    ELSE Concat(parts, lo, (lo + hi) \div 2) \o Concat(parts, (lo + hi) \div 2 + 1, hi)

RECURSIVE DecimalText(_)
\* str(n) of a number that is not negative
DecimalText(n) ==
    IF n < 10 THEN <<48 + n>> ELSE DecimalText(n \div 10) \o <<48 + (n % 10)>>

\* the column names of the header rows as texts
ColumnText(name) ==
    CASE name = "id" -> <<105, 100>>
      [] name = "value" -> <<118, 97, 108, 117, 101>>
      [] name = "description" -> <<100, 101, 115, 99, 114, 105, 112, 116, 105, 111, 110>>
      [] name = "criteria" -> <<99, 114, 105, 116, 101, 114, 105, 97>>
      [] name = "context" -> <<99, 111, 110, 116, 101, 120, 116>>

\* the fields of the k-th written row as csv.writer takes them: the row as
\* given, the value of a record (its second field) through str()
RowTexts(rows, k) ==
    IF k = 1 THEN [j \in 1..Len(rows[1]) |-> ColumnText(rows[1][j])]
    ELSE [j \in 1..Len(rows[k]) |->
             IF j = 2 THEN DecimalText(rows[k][j]) ELSE rows[k][j]]

\* a text with every double quote doubled
DoubleQuotes(t) ==
    Concat([i \in 1..Len(t) |-> IF t[i] = 34 THEN <<34, 34>> ELSE <<t[i]>>],
           1, Len(t))

\* a field as the excel dialect writes it (QUOTE_MINIMAL): in double quotes,
\* with its quotes doubled, when it holds the delimiter, a quote or a
\* character of the line terminator
QuoteField(t) ==
    IF \E i \in 1..Len(t) : t[i] \in {44, 34, 13, 10}
    THEN <<34>> \o DoubleQuotes(t) \o <<34>>
    ELSE t

\* writer.writerow: the fields joined by commas, then "\r\n"
writerow(fields) ==
    Concat([j \in 1..Len(fields) |->
               (IF j = 1 THEN <<>> ELSE <<44>>) \o QuoteField(fields[j])],
           1, Len(fields)) \o <<13, 10>>

\* the text the writer has written after the rows
WrittenText(rows) ==
    Concat([k \in 1..Len(rows) |-> writerow(RowTexts(rows, k))], 1, Len(rows))

\* a text stream (an open file, a StringIO) taking a write: with newline ""
\* or "\n" the text is kept as written, with another newline every "\n" is
\* replaced by it
TextIOWrite(t, newline) ==
    IF newline \in {<<>>, <<10>>} THEN t
    ELSE Concat([i \in 1..Len(t) |-> IF t[i] = 10 THEN newline ELSE <<t[i]>>],
                1, Len(t))

\* the utf-8 bytes of a character that is not a surrogate
Utf8Char(c) ==
    IF c < 128 THEN <<c>>
    ELSE IF c < 2048 THEN <<192 + (c \div 64), 128 + (c % 64)>>
    ELSE <<224 + (c \div 4096), 128 + ((c \div 64) % 64), 128 + (c % 64)>>

\* str.encode("utf-8") of a text without surrogates
Utf8(t) == Concat([i \in 1..Len(t) |-> Utf8Char(t[i])], 1, Len(t))

\* the bytes of the file of save_requirements_to_csv / save_criteria_to_csv
\* holding the written rows: open(filepath, "w", newline="", encoding="utf-8")
FileBytes(rows) == Utf8(TextIOWrite(WrittenText(rows), <<>>))

\* the bytes generate_csv_content_* returns for the written rows: an
\* io.StringIO() (its newline is "\n"), then getvalue().encode("utf-8")
ContentBytes(rows) == Utf8(TextIOWrite(WrittenText(rows), <<10>>))

---------------------------------------------------------------------------
(* Claims about the exported bytes (SpecSort)                              *)

\* the function of webapp_main.py that renders the list a save function of
\* detect.py has written
InMemory ==
    IF ret.fn = "save_requirements_to_csv"
    THEN generate_csv_content_requirements(arg.requirements)
    ELSE generate_csv_content_criteria(arg.criteria)

Saved == ret.fn \in {"save_requirements_to_csv", "save_criteria_to_csv"}

\* C12: for every list of records, the bytes a save function has left on
\* disk are the bytes the generate function of the same kind returns for the
\* same list.
C12_DiskEqualsMemory ==
    Saved => /\ InMemory.exc = None
             /\ FileBytes(ret.out.file) = ContentBytes(InMemory.val)

\* what holds: the bytes are the same whenever the sort of the list returns;
\* when it raises, the file holds the header row and the generate function
\* returns nothing
DiskEqualsMemoryWhenSorted ==
    Saved =>
        IF ret.out.exc = None
        THEN /\ InMemory.exc = None
             /\ FileBytes(ret.out.file) = ContentBytes(InMemory.val)
             /\ Len(FileBytes(ret.out.file)) > Len(FileBytes(<<ret.out.file[1]>>))
                    \/ Len(ret.out.file) = 1
        ELSE /\ InMemory.exc = ret.out.exc
             /\ FileBytes(ret.out.file) = FileBytes(<<ret.out.file[1]>>)

---------------------------------------------------------------------------
(* Reading exported content back                                           *)

RECURSIVE Positions(_, _, _)
\* the places lo..hi at which flag holds, in rising order
Positions(flag, lo, hi) ==
    IF lo > hi THEN <<>>
    ELSE IF lo = hi THEN (IF flag[lo] THEN <<lo>> ELSE <<>>)
    ELSE Positions(flag, lo, (lo + hi) \div 2)
             \o Positions(flag, (lo + hi) \div 2 + 1, hi)

\* bytes.decode("utf-8") of well-formed bytes of one to three byte
\* characters: a character begins at every byte that is not a continuation
\* byte (128..191)
Utf8Decode(b) ==
    LET starts == Positions([i \in 1..Len(b) |-> b[i] < 128 \/ b[i] >= 192],
                            1, Len(b))
    IN  [k \in 1..Len(starts) |->
            LET i == starts[k]
            IN  IF b[i] < 128 THEN b[i]
                ELSE IF b[i] < 224 THEN (b[i] - 192) * 64 + (b[i + 1] - 128)
                ELSE (b[i] - 224) * 4096 + (b[i + 1] - 128) * 64 + (b[i + 2] - 128)]

\* the field csv.reader (excel dialect) returns for the characters
\* t[x..y] between two delimiters: open[i] says that the character i stands
\* inside double quotes. The quotes that open and close are dropped, and of
\* two quotes in a row inside them the second is kept
ReaderField(t, open, x, y) ==
    IF x > y THEN <<>>
    ELSE IF t[x] # 34 THEN SubSeq(t, x, y)
    ELSE LET kept == Positions([i \in 1..Len(t) |-> t[i] # 34 \/ ~open[i]],
                               x + 1, y)
         IN  [k \in 1..Len(kept) |-> t[kept[k]]]

\* the record the reader returns for the characters t[a..b] between two
\* line ends: no field for an empty line, else the fields between the
\* commas that stand outside quotes
ReaderRecord(t, open, a, b) ==
    IF a > b THEN <<>>
    ELSE LET commas == Positions([i \in 1..Len(t) |-> t[i] = 44 /\ ~open[i]], a, b)
             n == Len(commas)
         IN  [j \in 1..(n + 1) |->
                 ReaderField(t, open,
                             IF j = 1 THEN a ELSE commas[j - 1] + 1,
                             IF j > n THEN b ELSE commas[j] - 1)]

\* the records csv.reader returns for a text read with its line ends kept
\* (newline=""), a text in which a double quote stands only in a quoted
\* field, as in every text the writer writes. A record ends at a "\r", a
\* "\n" or a "\r\n" outside quotes; what follows the last line end is a
\* record too
ReaderRows(t) ==
    LET quotes == Positions([i \in 1..Len(t) |-> t[i] = 34], 1, Len(t))
        open == [i \in 1..Len(t) |->
                    Cardinality({k \in 1..Len(quotes) : quotes[k] < i}) % 2 = 1]
        AfterCr(i) == i > 1 /\ t[i] = 10 /\ t[i - 1] = 13 /\ ~open[i - 1]
        ends == Positions([i \in 1..Len(t) |->
                              t[i] \in {13, 10} /\ ~open[i] /\ ~AfterCr(i)],
                          1, Len(t))
        n == Len(ends)
        From(k) == IF k = 1 THEN 1
                   ELSE IF ends[k - 1] < Len(t) /\ AfterCr(ends[k - 1] + 1)
                        THEN ends[k - 1] + 2
                        ELSE ends[k - 1] + 1
        complete == [k \in 1..n |-> ReaderRecord(t, open, From(k), ends[k] - 1)]
    IN  IF From(n + 1) > Len(t) THEN complete
        ELSE Append(complete, ReaderRecord(t, open, From(n + 1), Len(t)))

\* the records read back from exported bytes, without the header row
Reparsed(bytes) ==
    LET read == ReaderRows(Utf8Decode(bytes))
    IN  IF read = <<>> THEN <<>> ELSE Tail(read)

ExportFns ==
    {"save_requirements_to_csv", "save_criteria_to_csv",
     "generate_csv_content_requirements", "generate_csv_content_criteria"}

\* the list an export function was given
ExportedList ==
    IF ret.fn \in RequirementFns THEN arg.requirements ELSE arg.criteria

\* the bytes an export has left: the file, or the returned content (nothing
\* when the function raised)
ExportedBytes ==
    IF Saved THEN FileBytes(ret.out.file)
    ELSE IF ret.out.exc = None THEN ContentBytes(ret.out.val) ELSE <<>>

\* the records are read back as they were exported: one tuple per record of
\* the list, the i-th with the fields of the i-th exported row (the value by
\* its decimal text, all a csv file holds of it)
ReadBackAsExported ==
    LET read == Reparsed(ExportedBytes)
    IN  /\ Len(read) = Len(ExportedList)
        /\ \A i \in 1..Len(ExportedList) : read[i] = RowTexts(Produced, i + 1)

\* C13: exporting a list of records to csv and reading the content back,
\* skipping the header row, reproduces the tuples of the records in the order
\* in which they were exported.
C13_RoundTrip ==
    (mode = "fn" /\ ret.fn \in ExportFns) =>
        (ret.out.exc = None /\ ReadBackAsExported)

\* what holds: an export that returns is read back as exported; an export
\* that raises leaves no record to read
RoundTripWhenExported ==
    (mode = "fn" /\ ret.fn \in ExportFns) =>
        IF ret.out.exc = None
        THEN ReadBackAsExported /\ IsPermutation(Tail(Produced), InputRows)
        ELSE Reparsed(ExportedBytes) = <<>>

---------------------------------------------------------------------------
(* Claims about filtering a filtered list (SpecFilter)                     *)

\* the requirement usage is one of those the returned lists were made of
PassedFilter(r) ==
    \/ /\ IsRequirementRecord(r)
       /\ RequirementOf(r).exc = None
       /\ \E k \in 1..Len(ret.out.val.requirements) :
              ret.out.val.requirements[k] = RequirementOf(r).val
    \/ /\ IsCriteriaRecord(r)
       /\ CriteriaOfRecord(r).exc = None
       /\ \E k \in 1..Len(ret.out.val.criteria) :
              ret.out.val.criteria[k] = CriteriaOfRecord(r).val

\* the filter pass made again, for the same category, over the requirement
\* usages that passed the first
Refiltered ==
    LET filtered == [model EXCEPT !.records = SelectSeq(model.records, PassedFilter)]
        written == write_system_size(arg.system_size, filtered)
    IN  IF written.exc # None THEN Raised(written.exc)
        ELSE evaluate_requirements_and_criteria(written.model, arg.system_size)

\* C14: filtering is idempotent: when a filter pass has returned its lists,
\* the same pass over the requirement usages that passed, for the same
\* category, returns the same lists (same records, same order).
C14_Idempotent ==
    (FilterCalled /\ ret.out.exc = None) => Refiltered = ret.out

\* a pass that kept a criteria record and dropped a requirement before it
C14_Witness ==
    /\ FilterCalled
    /\ ret.out.exc = None
    /\ Len(model.records) = 2
    /\ IsRequirementRecord(model.records[1])
    /\ ~PredicateTrue(model.records[1], arg.system_size)
    /\ IsCriteriaRecord(model.records[2])
    /\ Len(ret.out.val.criteria) = 1
    /\ ret.out.val.requirements = <<>>
    /\ SelectSeq(model.records, PassedFilter) = <<model.records[2]>>

---------------------------------------------------------------------------
(* Claims about a submission after a failed one (Spec)                     *)

\* the result card shows a failed submission: it stays until the next
\* submission, on_change and process_with_system_size leave the card alone
FailedSubmissionShown == mode = "web" /\ result_card.kind \in {"tbd", "error"}

\* the step is a submission of a selection without a field at TBD
SubmitsFilledForm ==
    mode = "web" /\ last'.handler = "submit_form" /\ TbdSelections = {}

\* C15: every error of a submission is shown in the result card, and the
\* session stays usable: the submission of a selection without placeholder
\* that follows a failed submission succeeds and shows the category of the
\* selection, the first category whose rule the sum of its weights satisfies
\* (in a model that has the size attributes and a rule for the sum).
C15_RetryAfterFailure ==
    [][(FailedSubmissionShown /\ SubmitsFilledForm /\ HasSizeAttributes(model)
            /\ FirstMatch(model.rules, SubmittedNumber) \in Categories) =>
           /\ result_card' = SizeCard(FirstMatch(model.rules, SubmittedNumber))
           /\ second_button_visible']_vars

\* what holds: every submission ends with a message in the result card, and
\* after a failed submission the next filled form is classified as in a new
\* session, as long as the attribute calculate_system_size evaluates still
\* has the threshold expression
RetryAsInNewSession ==
    [][/\ (mode = "web" /\ last'.handler = "submit_form") =>
              result_card'.kind \in {"tbd", "error", "size"}
       /\ (FailedSubmissionShown /\ SubmitsFilledForm
               /\ model.system_size.kind = "rules" /\ model.system_size_number.has) =>
              IF FirstMatch(model.rules, SubmittedNumber) \in Categories
              THEN /\ result_card' = SizeCard(FirstMatch(model.rules, SubmittedNumber))
                   /\ second_button_visible'
              ELSE result_card'.kind = "error" /\ ~second_button_visible']_vars

---------------------------------------------------------------------------
(* Claims about the end of a script run (Spec)                             *)

StepsBeforeSaving ==
    {"get_system_size_number", "calculate_system_size", "write_system_size",
     "evaluate_requirements_and_criteria"}

\* the filtering has started: the script has reached line 610
FilteringStarted ==
    mode = "cli" /\ last.handler \in {"evaluate_requirements_and_criteria",
                                      "save_requirements_to_csv",
                                      "save_criteria_to_csv"}

\* C16: a script run that fails in the size calculation, the category
\* lookup, the write-back or the filtering ends there and writes neither
\* requirements.csv nor criteria.csv; a file is written only after every
\* earlier step has succeeded; and the category is printed before the
\* filtering starts.
C16_NoFilesOnFailure ==
    mode = "cli" =>
        /\ (pc = "raised" /\ exc.at \in StepsBeforeSaving) =>
               /\ files["requirements.csv"] = NoFile
               /\ files["criteria.csv"] = NoFile
               /\ last.handler = exc.at
        /\ (\E f \in DOMAIN files : files[f] # NoFile) =>
               /\ TbdInputs = {}
               /\ system_size_number # NoNumber
               /\ system_size \in Categories
               /\ write_system_size(system_size, model).exc = None
               /\ FirstSystemSizeExpr(model) = RefExpr(system_size)
               /\ evaluate_requirements_and_criteria(model, system_size).exc = None
               /\ requirements
                      = evaluate_requirements_and_criteria(model, system_size).val.requirements
               /\ criteria
                      = evaluate_requirements_and_criteria(model, system_size).val.criteria
        /\ files["criteria.csv"] # NoFile =>
               /\ save_requirements_to_csv(requirements).exc = None
               /\ files["requirements.csv"].rows
                      = save_requirements_to_csv(requirements).file
        /\ FilteringStarted => stdout = <<system_size>> /\ system_size \in Categories

\* a run that printed the category and then ended in the filter, on a record
\* that lacks a field, without a file
C16_Witness ==
    /\ mode = "cli"
    /\ pc = "raised"
    /\ exc.at = "evaluate_requirements_and_criteria"
    /\ exc.type = "ValueError"
    /\ stdout = <<system_size>>
    /\ system_size \in Categories
    /\ files["requirements.csv"] = NoFile
    /\ files["criteria.csv"] = NoFile

---------------------------------------------------------------------------
(* Claims about what the operations change in the model (Spec)             *)

\* the step leaves the records, the inputs, the rules and the attributes the
\* ecosystem has as they are
RestOfModelUnchanged ==
    /\ model'.records = model.records
    /\ model'.inputs = model.inputs
    /\ model'.rules = model.rules
    /\ model'.aliased = model.aliased
    /\ model'.system_size_number.has = model.system_size_number.has

\* C17 as stated: over every step of a run or session, the only model state
\* that changes is the value of the system_size attribute (the one
\* write_system_size writes); the records and every other attribute of the
\* model stay as they are.
C17_OnlySystemSizeChanges ==
    [][/\ RestOfModelUnchanged
       /\ model'.system_size_number = model.system_size_number
       /\ model.aliased => model'.first_system_size = model.first_system_size
       /\ ~model.aliased => model'.system_size = model.system_size]_vars

\* C17 amended: the model changes in two values only. calculate_system_size
\* sets the value of the system_size_number attribute to the number it is
\* given, and write_system_size sets the value of the first attribute named
\* system_size to the category; the records and everything else stay as
\* they are, also when an operation raises.
C17_OnlySizeValuesChange ==
    [][/\ RestOfModelUnchanged
       /\ model.aliased => model'.first_system_size = model.first_system_size
       /\ ~model.aliased => model'.system_size = model.system_size
       /\ model'.system_size_number # model.system_size_number =>
              /\ "calculate_system_size" \in {last'.calls[i] : i \in 1..Len(last'.calls)}
              /\ model'.system_size_number.value =
                     IF mode = "cli" THEN system_size_number ELSE SubmittedNumber
       /\ FirstSystemSizeExpr(model') # FirstSystemSizeExpr(model) =>
              /\ "write_system_size" \in {last'.calls[i] : i \in 1..Len(last'.calls)}
              /\ FirstSystemSizeExpr(model') =
                     RefExpr(IF mode = "cli" THEN system_size
                             ELSE state.calculated_system_size)]_vars

\* a run after its write-back: the model holds the number and the category
C17_Witness ==
    /\ mode = "cli"
    /\ pc = "written"
    /\ model.system_size_number.value = system_size_number
    /\ system_size_number > 0
    /\ FirstSystemSizeExpr(model) = RefExpr(system_size)
    /\ system_size \in Categories

---------------------------------------------------------------------------
(* Claims about the errors of calculate_system_size (Spec)                 *)

\* calculate_system_size has raised: in the script the run ended in it, in
\* the form the submission that called it shows an error
LookupFailed ==
    \/ mode = "cli" /\ pc = "raised" /\ exc.at = "calculate_system_size"
    \/ Submitted /\ last.calls # <<>> /\ result_card.kind = "error"

\* the type of the exception it raised
LookupError == IF mode = "cli" THEN exc.type ELSE result_card.name

\* C18: every failure of calculate_system_size is a ValueError: a missing
\* system_size_number attribute, a missing system_size attribute, a
\* system_size attribute without value expression, a fatal or empty
\* evaluation and a result that is no enumeration value raise ValueError and
\* no other kind of error.
C18_FailuresAreValueErrors == LookupFailed => LookupError = "ValueError"

\* what holds: a missing attribute raises ValueError; with both attributes
\* there, every failure is the NameError of an error message that formats
\* the undefined name system_size
MissingAttributeIsValueError ==
    LookupFailed =>
        LookupError = IF ~model.system_size_number.has \/ model.system_size.kind = "missing"
                      THEN "ValueError" ELSE "NameError"

---------------------------------------------------------------------------
(* Claims about the write-back before the filter (Spec)                    *)

\* the last operation has invoked evaluate_requirements_and_criteria
FilterInvoked ==
    /\ mode \in {"cli", "web"}
    /\ \E i \in 1..Len(last.calls) :
           last.calls[i] = "evaluate_requirements_and_criteria"

\* the category it was given as its system_size argument
FilterArgument == IF mode = "cli" THEN system_size ELSE state.calculated_system_size

\* C19: in the script and in the form the write-back precedes the filter:
\* whenever evaluate_requirements_and_criteria has been invoked, the
\* attribute named system_size that the predicates read holds the category
\* that was passed as the argument, a category that the lookup has computed.
C19_WriteBackPrecedesFilter ==
    FilterInvoked =>
        /\ FilterArgument \in Categories
        /\ FirstSystemSizeExpr(model) = RefExpr(FilterArgument)
        /\ EvalSizeExpr(model, FirstSystemSizeExpr(model)) = FilterArgument
        /\ mode = "web" =>
               /\ last.calls[1] = "write_system_size"
               /\ last.calls[2] = "evaluate_requirements_and_criteria"

\* a session that has filtered for Medium, and shows the tables
C19_Witness ==
    /\ FilterInvoked
    /\ mode = "web"
    /\ state.calculated_system_size = "Medium"
    /\ tableviews.visible
    /\ FirstSystemSizeExpr(model) = RefExpr("Medium")

---------------------------------------------------------------------------
(* Claims about the input definitions of the form (Spec)                   *)

\* the input definitions whose type is an enumeration, in model order
EnumDefinitions == SelectSeq(InputDefinitions, LAMBDA d : d.is_enum)

---------------------------------------------------------------------------
(* Claims about a submission after the write-back (Spec)                   *)

\* a submission that ended in a displayed category
SuccessfulSubmission == Submitted /\ result_card.kind = "size"

\* C21: in a session of the form, whatever submissions and process actions
\* came before, the category displayed after a successful submission is the
\* threshold lookup of the sum of the weights now selected, also when
\* process_with_system_size has written an earlier category into the model.
C21_FreshCategoryAfterProcess ==
    SuccessfulSubmission =>
        /\ result_card.name = FirstMatch(model.rules, SubmittedNumber)
        /\ state.calculated_system_size = FirstMatch(model.rules, SubmittedNumber)

\* what holds: the displayed category is the threshold lookup of the current
\* selection while the attribute calculate_system_size evaluates has its
\* threshold expression, that is in every session in which write_system_size
\* writes another attribute, and before the first process action otherwise;
\* after a write-back into that attribute the submission displays the
\* category written
FreshCategoryUnlessOverwritten ==
    SuccessfulSubmission =>
        /\ result_card.name = state.calculated_system_size
        /\ IF model.system_size.kind = "rules"
           THEN result_card.name = FirstMatch(model.rules, SubmittedNumber)
           ELSE /\ model.aliased
                /\ model.system_size.kind = "ref"
                /\ result_card.name = model.system_size.cat

---------------------------------------------------------------------------
(* Claims about the second button (Spec)                                   *)

\* C22: in a session of the form, whenever the 'Process with System Size'
\* button is visible, the stored calculated_system_size is the category
\* computed by the most recent submission, the one the result card shows: a
\* rejected submission never leaves the button visible together with the
\* category of an earlier submission.
C22_ButtonMeansCurrentCategory ==
    (mode = "web" /\ second_button_visible) =>
        /\ result_card.kind = "size"
        /\ state.calculated_system_size = result_card.name

\* what holds: a visible button means that a category is stored, and a
\* submission that ended in an exception hides the button; a submission
\* rejected for placeholder fields leaves button and stored category alone
ButtonMeansStoredCategory ==
    /\ (mode = "web" /\ second_button_visible) =>
          /\ state.calculated_system_size \in Categories
          /\ result_card.kind \in {"size", "tbd"}
          /\ result_card.kind = "size" => state.calculated_system_size = result_card.name
    /\ (Submitted /\ result_card.kind = "error") => ~second_button_visible

\* a submission that ended in an exception came after a classified one
ErrorAfterSuccessSeen ==
    /\ Submitted
    /\ result_card.kind = "error"
    /\ state.calculated_system_size \in Categories

---------------------------------------------------------------------------
(* Claims about the tables on screen (Spec)                                *)

\* what process_with_system_size puts into the tables container for a stored
\* category: the tables and the csv rows of the filter result (the bytes of
\* the download buttons are ContentBytes of these rows)
TablesFor(category) ==
    LET written == write_system_size(category, model)
        evaluated == evaluate_requirements_and_criteria(written.model, category)
    IN  IF written.exc # None \/ evaluated.exc # None THEN NoTables
        ELSE LET requirements_csv ==
                     generate_csv_content_requirements(evaluated.val.requirements)
                 criteria_csv == generate_csv_content_criteria(evaluated.val.criteria)
             IN  IF requirements_csv.exc # None \/ criteria_csv.exc # None
                 THEN NoTables
                 ELSE [visible |-> TRUE, filled |-> TRUE,
                       requirements_csv |-> requirements_csv.val,
                       criteria_csv |-> criteria_csv.val,
                       requirements_table |->
                           create_requirements_tableview(evaluated.val.requirements).val,
                       criteria_table |->
                           create_criteria_tableview(evaluated.val.criteria).val]

\* C23: in a session of the form, whenever the tables container is visible,
\* the result card shows a category and the rows of the tables and of the
\* downloads are the filter result for that category: a later submission
\* that changes or invalidates the displayed category leaves no tables of
\* the earlier category on screen.
C23_TablesMatchDisplayedCategory ==
    (mode = "web" /\ tableviews.visible) =>
        /\ result_card.kind = "size"
        /\ tableviews = TablesFor(result_card.name)

\* what holds: visible tables are the filter result for some category, the
\* one that was stored when process_with_system_size last filled them
TablesMatchProcessedCategory ==
    (mode = "web" /\ tableviews.visible) =>
        /\ \E category \in Categories : tableviews = TablesFor(category)
        /\ last.handler = "process_with_system_size" =>
               tableviews = TablesFor(state.calculated_system_size)

---------------------------------------------------------------------------
(* Claims about process_with_system_size without a category (Spec)         *)

\* C24: in a session of the form, process_with_system_size invoked while no
\* category is stored only issues a warning: it calls neither
\* write_system_size nor evaluate_requirements_and_criteria, leaves the model
\* and the stored state as they are, and the tables container stays hidden
\* and empty.
C24_ProcessWithoutCategoryOnlyWarns ==
    [][(mode = "web" /\ state.calculated_system_size = None /\ ProcessWithSystemSize) =>
          /\ notification' = "warning"
          /\ last'.calls = <<>>
          /\ model' = model
          /\ state' = state
          /\ tableviews' = NoTables
          /\ result_card' = result_card
          /\ second_button_visible' = second_button_visible
          /\ data' = data]_vars

\* the handler has run before any submission was classified, after a
\* submission that was rejected for a placeholder field
C24_Witness ==
    /\ mode = "web"
    /\ last.handler = "process_with_system_size"
    /\ state.calculated_system_size = None
    /\ notification = "warning"
    /\ result_card.kind = "tbd"
    /\ tableviews = NoTables

---------------------------------------------------------------------------
(* Claims about the selections of the form (Spec)                          *)

\* the labels a dropdown offers
LabelsOf(config) == {config.options[i] : i \in 1..Len(config.options)}

\* inputs_data as submit_form would collect it from the current selections
CollectedInputs == CollectSelections(DynamicOptions(model), data, <<>>, <<>>).inputs_data

\* C25: in a session of the form, after any dropdown changes, clearing
\* included, the selected label of every field is one of the options of the
\* field and has a weight in label_to_id_map; the selection the page starts
\* with and the selection a cleared dropdown falls back to is the option of
\* lowest weight; so inputs_data of a submission holds the weight selected
\* for every field, and a classified submission has summed them all.
C25_SelectionsAlwaysValid ==
    mode = "web" =>
        LET dynamic_options == DynamicOptions(model)
            inputs_data == CollectSelections(dynamic_options, data, <<>>, <<>>).inputs_data
        IN  /\ \A k \in 1..Len(dynamic_options) :
                   LET config == dynamic_options[k]
                       selected == data[config.field_name]
                       cleared == on_change(config, None, data)[config.field_name]
                   IN  /\ selected \in LabelsOf(config)
                       /\ IdOfLabel(config, selected) # NoNumber
                       /\ cleared = config.options[1]
                       /\ \A label \in LabelsOf(config) :
                              /\ IdOfLabel(config, label) # NoNumber
                              /\ IdOfLabel(config, cleared) <= IdOfLabel(config, label)
                       /\ last.handler = "main_page" => selected = cleared
            /\ Len(inputs_data) = NumFields
            /\ \A i \in 1..NumFields :
                   \E k \in 1..Len(inputs_data) :
                       /\ inputs_data[k].name = Fields[i]
                       /\ inputs_data[k].value = OptionWeight(Fields[i], data[Fields[i]])
            /\ SuccessfulSubmission => state.calculated_system_size_number = SubmittedNumber

\* a dropdown that was set to an option of higher weight is back at the
\* option of lowest weight, which is not the first of the definition, and the
\* selection was submitted
C25_Witness ==
    /\ Submitted
    /\ \E k \in 1..Len(DynamicOptions(model)) :
           LET config == DynamicOptions(model)[k]
           IN  /\ data[config.field_name] = config.options[1]
               /\ config.options[1] # OptionsOf(config.field_name)[1].label
               /\ IdOfLabel(config, config.options[1]) = 0
    /\ \E i \in 1..NumFields : OptionWeight(Fields[i], data[Fields[i]]) = MaxWeight
    /\ Len(CollectedInputs) = NumFields
    /\ state.calculated_system_size \in Categories

---------------------------------------------------------------------------
(* Claims about the two lists of the filter (SpecFilter)                   *)

\* a requirement usage with neither of the two definitions
IsUnrelatedRecord(r) == ReqDef \notin r.definitions /\ CritDef \notin r.definitions

\* the evaluation over the model without its unrelated requirement usages
EvaluatedWithoutUnrelated ==
    evaluate_requirements_and_criteria(
        [model EXCEPT !.records =
            SelectSeq(model.records, LAMBDA r : ~IsUnrelatedRecord(r))],
        arg.system_size)

\* the places at which a list holds the record
PlacesOf(list, r) ==
    {k \in 1..Len(list) : list[k].id = r.short_name /\ list[k].value = r.weight.value}

\* C26: the requirements and the criteria returned by
\* evaluate_requirements_and_criteria are disjoint and hold every record of
\* the model at most once: a record with DE_Ecosystem_req_Def only among the
\* requirements, also when it has Criteria_Def too, a record with Criteria_Def
\* alone only among the criteria, and a record with neither nowhere; such a
\* record has no part in the outcome, neither in the lists nor in an error.
C26_ListsDisjoint ==
    FilterCalled =>
        /\ ret.out = EvaluatedWithoutUnrelated
        /\ ret.out.exc = None =>
               LET reqs == ret.out.val.requirements
                   crits == ret.out.val.criteria
               IN  /\ \A k \in 1..Len(reqs) : \A j \in 1..Len(crits) :
                          reqs[k].id # crits[j].id
                   /\ \A i \in 1..Len(model.records) :
                          LET r == model.records[i]
                          IN  /\ Cardinality(PlacesOf(reqs, r))
                                     + Cardinality(PlacesOf(crits, r)) <= 1
                              /\ IsRequirementRecord(r) => PlacesOf(crits, r) = {}
                              /\ IsCriteriaRecord(r) => PlacesOf(reqs, r) = {}
                              /\ IsUnrelatedRecord(r) =>
                                     PlacesOf(reqs, r) = {} /\ PlacesOf(crits, r) = {}

\* a pass over a record with both definitions that applies, followed by a
\* record with neither definition, without predicate and without short name
C26_Witness ==
    /\ FilterCalled
    /\ ret.out.exc = None
    /\ Len(model.records) = 2
    /\ model.records[1].definitions = {ReqDef, CritDef}
    /\ Cardinality(PlacesOf(ret.out.val.requirements, model.records[1])) = 1
    /\ ret.out.val.criteria = <<>>
    /\ IsUnrelatedRecord(model.records[2])
    /\ model.records[2].constraints = <<>>
    /\ model.records[2].short_name = NoText

---------------------------------------------------------------------------
(* Claims about the failures of the natural sort (SpecSort)                *)

\* the identifiers of the list are all non-empty
IdsNonEmpty == \A i \in 1..Len(arg.ids) : arg.ids[i] # <<>>

\* natural_sort_key returns a key for every identifier of the list and the
\* keys of any two of them can be compared
KeysComparable ==
    \A i \in 1..Len(arg.ids) :
        LET ki == natural_sort_key(arg.ids[i])
        IN  /\ ki.exc = None
            /\ \A j \in 1..Len(arg.ids) :
                   LET kj == natural_sort_key(arg.ids[j])
                   IN  kj.exc = None => TupleLess(ki.val, kj.val).exc = None

\* C27: the natural sort never fails: for non-empty identifiers
\* natural_sort_key returns keys of which any two are comparable, no number
\* segment ever meets a text segment at the same position, so every
\* presentation that sorts a list of records completes.
C27_SortNeverFails ==
    (mode = "fn" /\ ret # NotCalled /\ IdsNonEmpty) =>
        /\ KeysComparable
        /\ ret.fn \in PresentationFns => ret.out.exc = None

\* what holds: for identifiers of the documented format (a letter, then
\* dot-separated numbers) the keys are comparable and every presentation
\* completes; and a presentation fails only on a list whose keys are not
\* comparable
SortCompletesForFormatIds ==
    (mode = "fn" /\ ret # NotCalled) =>
        /\ (\A i \in 1..Len(arg.ids) : arg.ids[i] \in FormatIds) =>
               /\ KeysComparable
               /\ ret.fn \in PresentationFns => ret.out.exc = None
        /\ (ret.fn \in PresentationFns /\ ret.out.exc # None) =>
               /\ ~KeysComparable
               /\ ret.out.exc \in {"ValueError", "TypeError"}

====
